---- MODULE Spec2Model ----
(***************************************************************************)
(* Model of refactor_mcp.engine.RefactoringEngine: provider registration,  *)
(* provider selection by language / capability / priority / health, the    *)
(* fallback loop, and the backup protocol around rename and extract; and   *)
(* of the provider registry of refactor_mcp.providers.registry with its    *)
(* three caches; and of refactor_mcp.providers.rope.RopeProvider on a      *)
(* small project.  These are separate objects: Spec and RequestSpec run    *)
(* the engine, RegistrySpec runs the registry, ConcurrentSpec runs two     *)
(* threads through the registry's methods statement by statement,          *)
(* HealthSpec runs the registry with providers whose is_healthy() changes, *)
(* RopeSpec runs the rope provider and QuerySpec its read-only queries on  *)
(* larger projects, BackupSpec runs refactor_mcp.shared.backup's           *)
(* BackupManager, CallersSpec runs two callers through                     *)
(* _execute_with_provider statement by statement, and FairSpec is Spec     *)
(* with the fallback loop's steps weakly fair.                             *)
(*                                                                         *)
(* Floats: a health score h is kept as the integer h * HealthScale, where  *)
(* HealthScale is a multiple of 100 and of every call count the bounds     *)
(* allow, so that 1 - failure_count/call_count and + 0.01 are exact.       *)
(* Wall-clock response times (total_response_time, avg_response_time) are  *)
(* not modelled.                                                           *)
(***************************************************************************)
EXTENDS Integers, Sequences, FiniteSets, TLC

(* ------------------------------ bounds -------------------------------- *)
\* at most this many entries in engine.providers
MaxProviders == 2
\* at most this many engine operations are started in one behaviour
MaxOps == 2
\* at most this many unload, query and provider-change steps on the registry
MaxCalls == 3

\* at most this many calls are made to the rope provider in one behaviour
MaxRopeCalls == 2
\* at most this many calls are made to the backup manager in one behaviour
MaxBackupCalls == 3
\* the clock of the backup manager shows the seconds 1..MaxSeconds
MaxSeconds == 2
\* a function body has at most this many expression nodes
MaxNodes == 3

\* find_symbols returns at most this many matches
MaxMatches == 100

(* --------------------------- the environment -------------------------- *)
\* provider objects; a provider is named by its `name` attribute
Providers == {"A", "B", "C"}

Operations ==
    {"analyze_symbol", "find_symbols", "show_function", "rename_symbol", "extract_element"}

Languages == {"python", "javascript", "unknown"}

Priorities == {10, 20}

\* provider.supports_language(language) of the test providers
supports_language(p, language) ==
    IF p = "C" THEN language \in {"python", "javascript"} ELSE language = "python"

\* provider.get_capabilities(language): [] for an unsupported language
get_capabilities(p, language) ==
    IF ~supports_language(p, language) THEN {}
    ELSE IF p = "C" /\ language = "python"
         THEN {"analyze_symbol", "rename_symbol", "extract_element"}
         ELSE Operations

\* getattr(provider, 'name', provider.__class__.__name__)
ProviderName(p) == p

\* what one call of a provider method does: return a result with
\* success=True, return a result with success=False, or raise
CallOutcomes == {"success", "failed", "raise"}

\* file paths a caller may pass, with what is on disk there
Paths == {"", "a.py", "b.js", "gone.py", "pkg"}
PathExists(path) == path \in {"a.py", "b.js", "pkg"}
PathIsFile(path) == path \in {"a.py", "b.js"}
Suffix(path) ==
    CASE path \in {"a.py", "gone.py"} -> ".py"
      [] path = "b.js" -> ".js"
      [] OTHER -> ""

NoName == <<"<absent>">>
\* candidate new_name values, as sequences of characters
NewNames == { <<"a">>, <<"_", "1">>, <<"1", "a">>, <<"a", "-">>, <<>> }


(* --------------------------- pure functions --------------------------- *)
\* detect_language: extension table, "unknown" for anything else
detect_language(file_path) ==
    CASE Suffix(file_path) = ".py" -> "python"
      [] Suffix(file_path) = ".js" -> "javascript"
      [] OTHER -> "unknown"

IsLetter(c) == c \in {"a", "Z"}
IsDigit(c) == c \in {"0", "1"}

\* re.match(r'^[a-zA-Z_][a-zA-Z0-9_]*$', name)
validate_symbol_name(name) ==
    /\ Len(name) >= 1
    /\ IsLetter(name[1]) \/ name[1] = "_"
    /\ \A i \in 2..Len(name) : IsLetter(name[i]) \/ IsDigit(name[i]) \/ name[i] = "_"

\* (mutant) nothing is validated
ValidatesNothing(operation, params) == "ok"

\* _validate_operation_params: "ok", or the field of the ValidationError
\* it raises.  new_name is checked for rename_symbol only; NoName stands
\* for params without a new_name attribute; "" is the default file_path.
validate_operation_params(operation, params) ==
    IF /\ operation = "rename_symbol"
       /\ params.new_name # NoName
       /\ ~validate_symbol_name(params.new_name)
    THEN "new_name"
    ELSE IF params.file_path # "" /\ ~PathExists(params.file_path) THEN "file_path"
    ELSE IF params.file_path # "" /\ ~PathIsFile(params.file_path) THEN "file_path"
    ELSE "ok"

\* (mutant) the file that defines the symbol is in scope
AffectedFileKnown(operation, params) == {"f"}

\* _get_affected_files: always the empty list
get_affected_files(operation, params) == {}

RECURSIVE GCD(_, _)
GCD(a, b) == IF b = 0 THEN a ELSE GCD(b, a % b)

RECURSIVE LcmUpTo(_)
LcmUpTo(n) == IF n <= 1 THEN 1 ELSE (LcmUpTo(n - 1) * n) \div GCD(LcmUpTo(n - 1), n)

\* a call_count never exceeds MaxOps * MaxProviders
HealthScale == 100 * LcmUpTo(MaxOps * MaxProviders)

\* the health score 1.0 set at registration
FullHealth == HealthScale

Min2(a, b) == IF a <= b THEN a ELSE b
Max2(a, b) == IF a >= b THEN a ELSE b

\* min(1.0, current_health + 0.01)
HealthAfterSuccess(current_health) ==
    Min2(FullHealth, current_health + HealthScale \div 100)

\* (mutant) the failure rate leaves out the attempt that just raised
HealthAfterEarlierFailures(failure_count, call_count) ==
    Max2(0, FullHealth - (FullHealth * (failure_count - 1)) \div call_count)

\* max(0.0, 1.0 - failure_count / call_count)
HealthAfterFailure(failure_count, call_count) ==
    Max2(0, FullHealth - (FullHealth * failure_count) \div call_count)

\* (mutant) the larger priority number sorts first
KeyBeforeDescending(a, b) ==
    \/ a.priority > b.priority
    \/ a.priority = b.priority /\ a.health > b.health

\* (mutant) the health score is left out of the sort key
KeyBeforePriorityOnly(a, b) == a.priority < b.priority

\* the sort key of _get_sorted_providers, (priority, -health): a sorts
\* strictly before b
KeyBefore(a, b) ==
    \/ a.priority < b.priority
    \/ a.priority = b.priority /\ a.health > b.health

RECURSIVE InsertSorted(_, _)
InsertSorted(s, x) ==
    IF s = <<>> THEN <<x>>
    ELSE IF KeyBefore(x, Head(s)) THEN <<x>> \o s
    ELSE <<Head(s)>> \o InsertSorted(Tail(s), x)

\* (mutant) the candidates stay in registration order
Unsorted(s) == s

\* list.sort(key=...): stable
RECURSIVE StableSort(_)
StableSort(s) ==
    IF s = <<>> THEN <<>>
    ELSE InsertSorted(StableSort(SubSeq(s, 1, Len(s) - 1)), s[Len(s)])

\* (mutant) the capability filter is missing
SuitableByLanguage(p, language, operation) == supports_language(p, language)

\* the provider passes both filters of _get_sorted_providers
Suitable(p, language, operation) ==
    /\ supports_language(p, language)
    /\ operation \in get_capabilities(p, language)

RECURSIVE SelectSuitable(_, _, _)
SelectSuitable(provs, language, operation) ==
    IF provs = <<>> THEN <<>>
    ELSE (IF Suitable(Head(provs), language, operation) THEN <<Head(provs)>> ELSE <<>>)
         \o SelectSuitable(Tail(provs), language, operation)

\* _get_sorted_providers(language, operation), given the registered list,
\* the providers' priority attributes and the engine's health table
get_sorted_providers(provs, prio, health, language, operation) ==
    LET suitable == SelectSuitable(provs, language, operation)
        keyed == [i \in 1..Len(suitable) |->
                    [provider |-> suitable[i],
                     priority |-> prio[suitable[i]],
                     health |-> health[ProviderName(suitable[i])]]]
        sorted == StableSort(keyed)
    IN [i \in 1..Len(sorted) |-> sorted[i].provider]


(* ------------------------------- state -------------------------------- *)
VARIABLES
    priority,          \* the `priority` attribute of each provider object
    providers,         \* engine.providers, in registration order
    provider_metrics,  \* engine._provider_metrics, by provider name
    provider_health,   \* engine._provider_health, by provider name
    language_cache,    \* engine._language_cache
    active_backups,    \* BackupManager._active_backups: operation ids
    disk_backups,      \* operation ids with a manifest under backup_root
    ops_started,       \* operations started so far; the next operation id
    pc,                \* "idle", "trying" (inside the fallback loop), "done"
    cur,               \* the operation in progress, with the health and
                       \* metrics tables as they were when it began, the
                       \* verdict of its validation, and what is wrong with
                       \* its parameters
    sorted_providers,  \* the candidate list of the operation in progress
    idx,               \* position of the next candidate in sorted_providers
    last_exception,    \* last_exception of _execute_with_fallback
    calls,             \* calls made by the operation in progress, in order
    outcome,           \* how the operation ended
    attempts,          \* history: the fallback attempts made on the providers
                       \* of each name, since the start and since the name
                       \* was last registered
    current_health,    \* history: the health score of the provider of the
                       \* latest attempt, as read right before that attempt
    keeps_history      \* whether the long history is kept: in `cur`, what is
                       \* wrong with the parameters of the operation; in
                       \* `attempts`, the attempts made since the start

\* the state of providers.registry.RefactoringEngine, the provider registry
VARIABLES
    registry_providers,       \* _providers: ProviderInfo records, in registration order
    registry_language_cache,  \* _language_cache: language -> list of providers
    best_provider_cache,      \* _best_provider_cache: language -> provider or None
    capability_cache,         \* _capability_cache: (provider, language) -> capabilities
    capabilities,             \* what get_capabilities of each provider returns now
                              \* for a language the provider supports
    capabilities_changed,     \* history: the providers whose capabilities changed
                              \* since the caches were last cleared
    registry_calls,           \* unload, query and provider-change steps so far
    answer                    \* the latest registry call and what it returned

\* the callers that are inside the provider registry at the same time
VARIABLES
    lock,     \* _lock, the RLock: the thread that holds it and how many times
    threads   \* each calling thread: the method it is in, its arguments, the
              \* statement it is at, and what the method gave it

thread_vars == <<lock, threads>>

\* the health checks of the providers, as the registry sees them
VARIABLES
    healthy,      \* what is_healthy() of each provider returns now
    health_calls  \* history: the latest two calls of get_healthy_providers
                  \* since a provider was last registered or removed, each
                  \* with its result and the providers that were healthy

health_vars == <<healthy, health_calls>>

\* the state of a RopeProvider and of the project it works on
VARIABLES
    project_files,  \* the project on disk: for each path, whether the file
                    \* exists and the definition on each of its lines
    scan_order,     \* the order in which project.get_files() lists the files
    project_cache,  \* _project_cache: the project roots with a cached Project
    symbol_cache,   \* _symbol_cache: symbol name -> symbol info
    rope_calls,     \* provider calls so far
    rope_call,      \* the latest provider call
    rope_result,    \* what the latest provider call returned
    fresh_result,   \* history: what the latest call would have returned had
                    \* _clear_cache() been called right before it
    files_before,   \* history: the project as it was before the latest call
    more_functions, \* how many further functions the project defines, in
                    \* files that get_files() lists after the others
    body            \* the body of every function of the project: its
                    \* expression nodes in the order ast.walk yields them

rope_vars == <<project_files, scan_order, project_cache, symbol_cache, rope_calls,
               rope_call, rope_result, fresh_result, files_before, more_functions,
               body>>

\* a BackupManager and its backup_root directory
VARIABLES
    backup_root,   \* the directories under backup_root: for each name
                   \* <operation_id>_<timestamp>, whether it exists and the
                   \* files its manifest.json lists
    active_dir,    \* _active_backups as a dict: operation id -> directory
    now,           \* the second the clock shows, as datetime.now() gives it
    backup_calls,  \* calls of the backup manager so far
    backup_call,   \* the latest call of the backup manager and its result
    cleaned_up     \* history: the operation ids whose cleanup_backup returned
                   \* True, with no create_backup for them since

manager_vars == <<backup_root, active_dir, now, backup_calls, backup_call, cleaned_up>>

\* the callers that are inside the fallback loop of the engine at the same time
VARIABLES
    callers   \* each calling thread: the statement of _execute_with_provider
              \* it is at, the provider it is attempting and the values it
              \* has read

registry_vars == <<registry_providers, registry_language_cache, best_provider_cache,
                   capability_cache, capabilities, capabilities_changed,
                   registry_calls, answer>>

\* the variables of the engine of engine.py
engine_all == <<priority, providers, provider_metrics, provider_health, language_cache,
                active_backups, disk_backups, ops_started, pc, cur, sorted_providers,
                idx, last_exception, calls, outcome, attempts, current_health,
                keeps_history>>

vars == <<priority, providers, provider_metrics, provider_health, language_cache,
          active_backups, disk_backups, ops_started, pc, cur, sorted_providers,
          idx, last_exception, calls, outcome, attempts, current_health,
          keeps_history, registry_vars, thread_vars, health_vars, rope_vars,
          manager_vars, callers>>

\* what an action of the engine of engine.py leaves alone, and what an
\* action of the registry called by one caller leaves alone
outside_engine == <<registry_vars, thread_vars, health_vars, rope_vars, manager_vars,
                    callers>>
outside_registry == <<engine_all, thread_vars, health_vars, rope_vars, manager_vars,
                      callers>>
outside_rope == <<engine_all, registry_vars, thread_vars, health_vars, manager_vars,
                  callers>>

engine_vars == <<providers, provider_metrics, provider_health, language_cache>>
backup_vars == <<active_backups, disk_backups>>

NoProvider == "None"

(* ------------------- the project of the rope provider ----------------- *)
\* the names a rename or an extraction asks for
NewRopeNames == {"y", "z"}

\* the lines of a file that hold a definition
Slots == 1..2

\* the python files of the project, as path components without ".py":
\* a.py, m.py and m/x.py
RopePaths == {<<"a">>, <<"m">>, <<"m", "x">>}

\* symbol names, as their dotted components: x, y, m.x and ghost.x, where
\* the project has no module ghost
SymbolNames == {<<"x">>, <<"y">>, <<"m", "x">>, <<"ghost", "x">>}

\* extraction sources: x, m.x, ghost.x and x.lambda_1
ExtractionSources == {<<"x">>, <<"m", "x">>, <<"ghost", "x">>, <<"x", "lambda_1">>}

\* search patterns of find_symbols
Patterns == {"x", "*"}

\* no definition on the line
NoDefinition == [name |-> "", kind |-> "none"]

\* a def statement, or an assignment to a name
Definition(name, kind) == [name |-> name, kind |-> kind]

\* a file that does not exist
NoFile == [exists |-> FALSE, defs |-> [s \in Slots |-> NoDefinition]]

\* what Rename / ExtractMethod and project.do of the rope library may do:
\* apply the change, or raise
RopeOutcomes == {"done", "raise"}

\* the project root find_project_root(".") returns
project_root == "."

\* None, for a symbol that is not resolved
NoSymbol ==
    [resource |-> <<>>, slot |-> 0, name |-> "", type |-> "none",
     qualified_name |-> <<>>]

\* the default field values of the result models; error_type and the other
\* Optional fields are None
None == "None"
NoSymbolInfo == [name |-> "", qualified_name |-> <<>>, type |-> "",
                 definition_location |-> [file |-> <<>>, line |-> 0]]
DefaultResult ==
    [operation |-> "none", success |-> FALSE, error_type |-> None,
     symbol_info |-> NoSymbolInfo, references |-> <<>>, reference_count |-> 0,
     matches |-> <<>>, total_count |-> 0,
     old_name |-> <<>>, new_name |-> None, files_modified |-> <<>>,
     references_updated |-> 0, conflicts |-> <<>>, backup_id |-> None,
     source |-> <<>>, extracted_code |-> None,
     function_name |-> <<>>, extractable_elements |-> <<>>]

\* no provider call yet; `resolved` is the symbol info a call works with
NoRopeCall == [operation |-> "none", symbol |-> <<>>, new_name |-> None,
               pattern |-> "", resolved |-> NoSymbol]

\* a file with the given definitions on its lines
FileOf(first, second) ==
    [exists |-> TRUE, defs |-> [s \in Slots |-> IF s = 1 THEN first ELSE second]]

\* the expression nodes of a function body that matter to show_function
NodeKinds == {"Lambda", "ListComp", "DictComp"}

\* the body with one lambda and nothing else
OneLambda == <<"Lambda">>

\* a new RopeProvider
RopeProviderInit ==
    /\ project_cache = {}
    /\ symbol_cache = <<>>
    /\ rope_calls = 0
    /\ rope_call = NoRopeCall
    /\ rope_result = DefaultResult
    /\ fresh_result = DefaultResult
    /\ files_before = project_files

\* the rope provider is not used: a project without definitions
NoProject ==
    /\ project_files = [p \in RopePaths |-> IF Len(p) = 1 THEN FileOf(NoDefinition, NoDefinition)
                                    ELSE NoFile]
    /\ scan_order = <<<<"a">>, <<"m">>, <<"m", "x">>>>
    /\ more_functions = 0
    /\ body = OneLambda
    /\ RopeProviderInit

(* -------------------------- the backup manager ------------------------ *)
\* the operation ids the backup manager is called with
BackupIds == {"op1", "op2"}

\* the files a backup is asked for, and the lists of them a caller passes
BackupFiles == {"f", "g"}
FileLists == {{}, {"f"}, {"f", "g"}}

\* the names <operation_id>_<timestamp> of the directories under backup_root
BackupDirs == BackupIds \X (1..MaxSeconds)

\* a name that is no directory: what _active_backups.get(operation_id)
\* gives for an unknown operation id
NoDir == <<"", 0>>

\* a directory that does not exist, and a directory with a manifest.json
\* listing `files`
NoDirectory == [exists |-> FALSE, files |-> {}]
Directory(files) == [exists |-> TRUE, files |-> files]

\* how a call of the backup manager ends for its file system operations
IoOutcomes == {"ok", "oserror"}

\* the call of the backup manager that has not happened
NoBackupCall ==
    [call |-> "none", operation_id |-> "", files |-> {}, present |-> {},
     dir |-> NoDir, result |-> "none", dirs_before |-> {}, cleaned_before |-> FALSE]

\* BackupManager.__init__ on an empty backup_root; no caller is inside the
\* engine's fallback loop
BackupManagerInit ==
    /\ backup_root = [d \in BackupDirs |-> NoDirectory]
    /\ active_dir = [id \in BackupIds |-> NoDir]
    /\ now = 1
    /\ backup_calls = 0
    /\ backup_call = NoBackupCall
    /\ cleaned_up = {}

(* ------------------------------ the engine ---------------------------- *)
NoException == [from |-> NoProvider, attempt |-> 0]
NoOutcome ==
    [kind |-> "none", success |-> FALSE, provider |-> NoProvider,
     error |-> "", detail |-> "", original |-> NoException]
NoOperation ==
    [operation |-> "", language |-> "", operation_id |-> 0,
     entry |-> "", destructive |-> FALSE, health |-> <<>>, metrics |-> <<>>,
     checked |-> "ok", bad_name |-> FALSE, bad_path |-> FALSE]

\* the engine's _destructive_operations
destructive_operations == {"rename_symbol", "extract_element"}

\* a result object returned by provider p
Returned(p, o) ==
    [kind |-> "returned", success |-> (o = "success"), provider |-> p,
     error |-> "", detail |-> "", original |-> NoException]

\* an exception raised to the caller: ProviderError(who, operation, original),
\* or another error with its detail
Raised(error, who, detail, original) ==
    [kind |-> "raised", success |-> FALSE, provider |-> who,
     error |-> error, detail |-> detail, original |-> original]

Call(name, p, id, result) ==
    [call |-> name, provider |-> p, operation_id |-> id, result |-> result]

\* params has a new_name that is not an identifier
BadName(params) == params.new_name # NoName /\ ~validate_symbol_name(params.new_name)

\* params declares a file path and nothing exists there
BadPath(params) == params.file_path # "" /\ ~PathExists(params.file_path)

\* the parameter objects of one operation
ParamsOf(operation) ==
    [new_name : IF operation \in destructive_operations THEN NewNames ELSE {NoName},
     file_path : Paths]

\* no attempt was made
NoAttempts == [made |-> 0, raised |-> 0, made_since |-> 0, raised_since |-> 0]

\* the threads that call the engine at the same time, and a thread that is
\* not inside _execute_with_provider
Callers == {"c1", "c2"}
NotCalling == [at |-> "idle", provider |-> NoProvider, raises |-> FALSE, read |-> 0]
NoCallers == [c \in Callers |-> NotCalling]

\* a new RefactoringEngine of engine.py, and no operation in progress
EngineInit ==
    /\ providers = <<>>
    /\ provider_metrics = <<>>
    /\ provider_health = <<>>
    /\ language_cache = <<>>
    /\ active_backups = {}
    /\ disk_backups = {}
    /\ ops_started = 0
    /\ pc = "idle"
    /\ cur = NoOperation
    /\ sorted_providers = <<>>
    /\ idx = 0
    /\ last_exception = NoException
    /\ calls = <<>>
    /\ outcome = NoOutcome
    /\ attempts = [name \in {ProviderName(p) : p \in Providers} |-> NoAttempts]
    /\ current_health = 0
    /\ BackupManagerInit
    /\ callers = NoCallers

\* the registry call that has not happened
NoAnswer ==
    [call |-> "none", language |-> "", capability |-> "", provider |-> NoProvider,
     result |-> <<>>, listed |-> {}]

\* the threads that call the registry
Threads == {"t1", "t2"}
NoThread == "nobody"

\* the RLock that nobody holds
Unlocked == [holder |-> NoThread, depth |-> 0]

\* a thread that is in no method of the registry
Idle ==
    [pc |-> "idle", call |-> "none", language |-> "", provider |-> NoProvider,
     priority |-> 0, found |-> <<>>, best |-> NoProvider, listed |-> {},
     raised |-> ""]

\* a new RefactoringEngine of providers/registry.py
RegistryInit ==
    /\ lock = Unlocked
    /\ threads = [t \in Threads |-> Idle]
    /\ health_calls = <<>>
    /\ registry_providers = <<>>
    /\ registry_language_cache = <<>>
    /\ best_provider_cache = <<>>
    /\ capability_cache = <<>>
    /\ capabilities_changed = {}
    /\ registry_calls = 0
    /\ answer = NoAnswer

\* the providers A and B have either priority, C has priority 10
Init ==
    /\ priority \in {f \in [Providers -> Priorities] : f["C"] = 10}
    /\ keeps_history = FALSE
    /\ EngineInit
    /\ capabilities = [p \in Providers |-> get_capabilities(p, "python")]
    /\ healthy = [p \in Providers |-> TRUE]
    /\ RegistryInit
    /\ NoProject

\* d[k] = v, as a dict assignment
Put(d, k, v) == [x \in DOMAIN d \cup {k} |-> IF x = k THEN v ELSE d[x]]

(* --------------------------- registration ----------------------------- *)
\* (mutant) a registration starts the metrics of every provider afresh
ResetsEveryMetrics(metrics, name) ==
    [n \in DOMAIN metrics \cup {name} |-> [call_count |-> 0, failure_count |-> 0]]

\* register_provider: self._provider_metrics[provider_name] = {...}
metrics_after_register(metrics, name) ==
    Put(metrics, name, [call_count |-> 0, failure_count |-> 0])

\* register_provider(provider)
register_provider(p) ==
    /\ pc = "idle"
    /\ Len(providers) < MaxProviders
    /\ providers' = Append(providers, p)
    /\ language_cache' = <<>>
    /\ provider_metrics' = metrics_after_register(provider_metrics, ProviderName(p))
    /\ provider_health' = Put(provider_health, ProviderName(p), FullHealth)
    /\ attempts' = [attempts EXCEPT ![ProviderName(p)].made_since = 0,
                                     ![ProviderName(p)].raised_since = 0]
    /\ UNCHANGED <<priority, keeps_history, outside_engine, backup_vars, ops_started, pc, cur, sorted_providers,
                   idx, last_exception, calls, outcome, current_health>>

(* ------------------------------ backups ------------------------------- *)
\* BackupManager.cleanup_backup(operation_id) returns True
cleanup_backup_found(id) == id \in active_backups /\ id \in disk_backups

\* (mutant) the backup is never cleaned up
NeverCleansUp(success) == FALSE

\* _cleanup_operation(operation_id, success) calls cleanup_backup
CleansUp(success) == success

\* the calls _cleanup_operation(operation_id, success) makes
cleanup_operation_calls(id, success) ==
    IF CleansUp(success)
    THEN <<Call("cleanup_backup", NoProvider, id, cleanup_backup_found(id))>>
    ELSE <<>>

\* the backups left by _cleanup_operation(operation_id, success)
cleanup_operation_left(backups, id, success) ==
    IF CleansUp(success) /\ cleanup_backup_found(id) THEN backups \ {id} ELSE backups

\* (mutant) a cleanup_backup that returned False turns the result into a
\* failure
result_unless_cleanup_failed(result, cleaned) ==
    IF cleaned THEN result ELSE [result EXCEPT !.success = FALSE]

\* what the rename and extract wrappers return after
\* _cleanup_operation(operation_id, success=True): the provider's result,
\* whatever cleanup_backup returned
result_after_cleanup(result, cleaned) == result

\* the epilogue of the wrapper of operation `op`, after the calls `made`:
\* only the rename and extract wrappers call _cleanup_operation
Epilogue(op, made, success) ==
    /\ calls' = made \o
           (IF op.destructive THEN cleanup_operation_calls(op.operation_id, success)
            ELSE <<>>)
    /\ active_backups' =
           IF op.destructive
           THEN cleanup_operation_left(active_backups, op.operation_id, success)
           ELSE active_backups
    /\ disk_backups' =
           IF op.destructive
           THEN cleanup_operation_left(disk_backups, op.operation_id, success)
           ELSE disk_backups

(* ------------------------- fallback operations ------------------------ *)
\* the validation a wrapper runs: every wrapper but the two for
\* find_symbols calls _validate_operation_params
wrapper_validation(operation, params) ==
    IF operation = "find_symbols" THEN "ok"
    ELSE validate_operation_params(operation, params)

\* (mutant) an empty candidate list is reported as an unsupported operation
OperationUnsupported(language) ==
    Raised("OperationUnsupported", NoProvider, language, NoException)

\* _execute_with_fallback with an empty candidate list:
\* raise UnsupportedLanguageError(language)
NoCandidates(language) ==
    Raised("UnsupportedLanguageError", NoProvider, language, NoException)

\* <operation>_with_fallback(params), and
\* analyze_symbol_with_language_detection(params, file_path), up to the
\* first provider call: validation, backup, candidate selection
begin_with_fallback(operation, entry, params, file_path) ==
    /\ pc = "idle"
    /\ ops_started < MaxOps
    /\ entry = "with_language_detection" => operation = "analyze_symbol"
    /\ entry = "with_fallback" => file_path = ""
    /\ LET id == ops_started + 1
           language == IF entry = "with_language_detection"
                       THEN detect_language(file_path) ELSE "python"
           checked == wrapper_validation(operation, params)
           destructive == operation \in destructive_operations
           files == IF destructive THEN get_affected_files(operation, params) ELSE {}
           backup_called == checked = "ok" /\ files # {}
           candidates == get_sorted_providers(providers, priority, provider_health,
                                              language, operation)
       IN /\ ops_started' = id
          /\ cur' = [operation |-> operation, language |-> language,
                     operation_id |-> id, entry |-> entry, destructive |-> destructive,
                     health |-> provider_health, metrics |-> provider_metrics,
                     checked |-> checked,
                     bad_name |-> keeps_history /\ BadName(params),
                     bad_path |-> keeps_history /\ BadPath(params)]
          /\ \E created \in (IF backup_called THEN BOOLEAN ELSE {TRUE}) :
               LET made == IF backup_called
                           THEN <<Call("create_backup", NoProvider, id, created)>>
                           ELSE <<>>
               IN /\ active_backups' =
                         IF backup_called /\ created THEN active_backups \cup {id}
                         ELSE active_backups
                  /\ disk_backups' =
                         IF backup_called /\ created THEN disk_backups \cup {id}
                         ELSE disk_backups
                  /\ calls' = made
                  /\ IF checked # "ok"
                     THEN /\ outcome' = Raised("ValidationError", NoProvider, checked,
                                               NoException)
                          /\ pc' = "done"
                          /\ sorted_providers' = <<>>
                          /\ idx' = 0
                     ELSE IF ~created
                     THEN /\ outcome' = Raised("BackupError", NoProvider, "create_backup",
                                               NoException)
                          /\ pc' = "done"
                          /\ sorted_providers' = <<>>
                          /\ idx' = 0
                     ELSE IF candidates = <<>>
                     THEN /\ outcome' = NoCandidates(language)
                          /\ pc' = "done"
                          /\ sorted_providers' = <<>>
                          /\ idx' = 0
                     ELSE /\ outcome' = NoOutcome
                          /\ pc' = "trying"
                          /\ sorted_providers' = candidates
                          /\ idx' = 1
          /\ last_exception' = NoException
          /\ current_health' = 0
          /\ UNCHANGED <<priority, keeps_history, outside_engine, engine_vars, attempts>>

\* (mutant) a raise is not told from a return: no failure is recorded
RaisesUnnoticed(o) == FALSE

\* _execute_with_provider: the provider method raised
Raises(o) == o = "raise"

\* (mutant) the loop's end takes the branch for "no exception seen"
AllProvidersFailedAsUnsupported(operation, e) ==
    Raised("UnsupportedLanguageError", NoProvider, operation, NoException)

\* (mutant) after the loop the executor returns nothing
ReturnsNone(operation, e) == NoOutcome

\* _execute_with_fallback, after the loop: every candidate raised and e is
\* last_exception
AllProvidersFailed(operation, e) == Raised("ProviderError", "all_providers", operation, e)

\* (mutant) the loop also goes on after a result with success=False
TriesNextUnlessSuccess(o) == o # "success"

\* _execute_with_fallback: the loop goes on to the next candidate
TriesNext(o) == o = "raise"

\* one iteration of the loop of _execute_with_fallback: a call of
\* _execute_with_provider on the next candidate and, when the loop ends
\* with it, the rest of the operation
try_provider ==
    /\ pc = "trying"
    /\ LET p == sorted_providers[idx]
           name == ProviderName(p)
           m == provider_metrics[name]
       IN \E o \in CallOutcomes :
            LET e == [from |-> p, attempt |-> idx]
                made == calls \o <<Call("invoke", p, cur.operation_id, o)>>
            IN /\ provider_metrics' =
                      [provider_metrics EXCEPT ![name] =
                          [call_count |-> m.call_count + 1,
                           failure_count |-> m.failure_count + (IF Raises(o) THEN 1 ELSE 0)]]
               /\ provider_health' =
                      [provider_health EXCEPT ![name] =
                          IF Raises(o)
                          THEN HealthAfterFailure(m.failure_count + 1, m.call_count + 1)
                          ELSE HealthAfterSuccess(@)]
               /\ current_health' = provider_health[name]
               /\ attempts' =
                      [attempts EXCEPT ![name] =
                          [made |-> @.made + (IF keeps_history THEN 1 ELSE 0),
                           raised |-> @.raised +
                                      (IF keeps_history /\ o = "raise" THEN 1 ELSE 0),
                           made_since |-> @.made_since + 1,
                           raised_since |-> @.raised_since + (IF o = "raise" THEN 1 ELSE 0)]]
               /\ IF ~TriesNext(o)
                  THEN \* the result is returned to the wrapper
                       /\ outcome' =
                              IF cur.destructive
                              THEN result_after_cleanup(
                                       Returned(p, o),
                                       cleanup_backup_found(cur.operation_id))
                              ELSE Returned(p, o)
                       /\ pc' = "done"
                       /\ idx' = idx
                       /\ last_exception' = last_exception
                       /\ Epilogue(cur, made, TRUE)
                  ELSE IF idx < Len(sorted_providers)
                  THEN \* continue with the next provider
                       /\ outcome' = outcome
                       /\ pc' = "trying"
                       /\ idx' = idx + 1
                       /\ last_exception' = e
                       /\ calls' = made
                       /\ UNCHANGED backup_vars
                  ELSE \* all providers failed
                       /\ outcome' = AllProvidersFailed(cur.operation, e)
                       /\ pc' = "done"
                       /\ idx' = idx
                       /\ last_exception' = e
                       /\ Epilogue(cur, made, FALSE)
    /\ UNCHANGED <<priority, keeps_history, outside_engine, providers, language_cache, ops_started, cur,
                   sorted_providers>>

(* -------------------------- direct operations ------------------------- *)
RECURSIVE FirstSupporting(_, _)
FirstSupporting(provs, language) ==
    IF provs = <<>> THEN NoProvider
    ELSE IF supports_language(Head(provs), language) THEN Head(provs)
    ELSE FirstSupporting(Tail(provs), language)

\* get_provider(language): the cached answer, or the first registered
\* provider that supports the language (None when there is none)
get_provider(language) ==
    IF language \in DOMAIN language_cache THEN language_cache[language]
    ELSE FirstSupporting(providers, language)

\* analyze_symbol, find_symbols, show_function, rename_symbol and
\* extract_element: the operation goes to get_provider("python") alone
direct_operation(operation, params) ==
    /\ pc = "idle"
    /\ ops_started < MaxOps
    /\ LET id == ops_started + 1
           checked == wrapper_validation(operation, params)
           provider == get_provider("python")
           destructive == operation \in destructive_operations
           op == [operation |-> operation, language |-> "python",
                  operation_id |-> id, entry |-> "direct", destructive |-> destructive,
                  health |-> provider_health, metrics |-> provider_metrics,
                  checked |-> checked,
                  bad_name |-> keeps_history /\ BadName(params),
                  bad_path |-> keeps_history /\ BadPath(params)]
           files == IF destructive THEN get_affected_files(operation, params) ELSE {}
           backup_called == checked = "ok" /\ provider # NoProvider /\ files # {}
       IN /\ ops_started' = id
          /\ cur' = op
          /\ language_cache' =
                 IF checked = "ok" THEN Put(language_cache, "python", provider)
                 ELSE language_cache
          /\ \E created \in (IF backup_called THEN BOOLEAN ELSE {TRUE}),
                o \in CallOutcomes :
               LET made == IF backup_called
                           THEN <<Call("create_backup", NoProvider, id, created)>>
                           ELSE <<>>
                   kept == IF backup_called /\ created THEN {id} ELSE {}
                   e == [from |-> provider, attempt |-> 1]
                   invoked == made \o <<Call("invoke", provider, id, o)>>
               IN IF checked # "ok"
                  THEN /\ o = "success"
                       /\ outcome' = Raised("ValidationError", NoProvider, checked,
                                            NoException)
                       /\ calls' = <<>>
                       /\ UNCHANGED backup_vars
                  ELSE IF provider = NoProvider
                  THEN /\ o = "success"
                       /\ outcome' = Raised("UnsupportedLanguageError", NoProvider,
                                            "python", NoException)
                       /\ calls' = <<>>
                       /\ UNCHANGED backup_vars
                  ELSE IF ~created
                  THEN /\ o = "success"
                       /\ outcome' = Raised("BackupError", NoProvider, "create_backup",
                                            NoException)
                       /\ calls' = made
                       /\ UNCHANGED backup_vars
                  ELSE /\ outcome' = IF Raises(o)
                                     THEN Raised("ProviderError", provider, operation, e)
                                     ELSE IF destructive
                                     THEN result_after_cleanup(
                                              Returned(provider, o),
                                              cleanup_backup_found(id))
                                     ELSE Returned(provider, o)
                       /\ calls' = invoked \o
                              (IF destructive
                               THEN cleanup_operation_calls(id, ~Raises(o)) ELSE <<>>)
                       /\ active_backups' =
                              IF destructive
                              THEN cleanup_operation_left(active_backups \cup kept, id,
                                                          ~Raises(o))
                              ELSE active_backups
                       /\ disk_backups' =
                              IF destructive
                              THEN cleanup_operation_left(disk_backups \cup kept, id,
                                                          ~Raises(o))
                              ELSE disk_backups
    /\ pc' = "done"
    /\ sorted_providers' = <<>>
    /\ idx' = 0
    /\ last_exception' = NoException
    /\ current_health' = 0
    /\ UNCHANGED <<priority, keeps_history, outside_engine, providers, provider_metrics, provider_health, attempts>>

\* the caller has the result or the exception of the operation
finish ==
    /\ pc = "done"
    /\ pc' = "idle"
    /\ cur' = NoOperation
    /\ sorted_providers' = <<>>
    /\ idx' = 0
    /\ last_exception' = NoException
    /\ calls' = <<>>
    /\ outcome' = NoOutcome
    /\ current_health' = 0
    /\ UNCHANGED <<priority, keeps_history, outside_engine, engine_vars, backup_vars, ops_started, attempts>>

Next ==
    \/ \E p \in Providers : register_provider(p)
    \/ \E operation \in Operations, entry \in {"with_fallback", "with_language_detection"},
          file_path \in Paths :
         \E params \in ParamsOf(operation) :
            begin_with_fallback(operation, entry, params, file_path)
    \/ try_provider
    \/ \E operation \in Operations : \E params \in ParamsOf(operation) :
         direct_operation(operation, params)
    \/ finish

Spec == Init /\ [][Next]_vars

\* the engine with calls that come to an end: a provider call returns or
\* raises, and the loop of _execute_with_fallback and the wrapper around it
\* go on when it has
FairSpec == Spec /\ WF_vars(try_provider) /\ WF_vars(finish)

\* the same engine, with providers of one priority, keeping the long
\* history
RequestInit ==
    /\ priority = [p \in Providers |-> 10]
    /\ keeps_history = TRUE
    /\ EngineInit
    /\ capabilities = [p \in Providers |-> get_capabilities(p, "python")]
    /\ healthy = [p \in Providers |-> TRUE]
    /\ RegistryInit
    /\ NoProject

RequestSpec == RequestInit /\ [][Next]_vars

(* ------------------------- the provider registry ---------------------- *)
\* priorities passed to register_provider (the default is 1)
RegistryPriorities == {1, 2}

\* the languages and the capabilities the registry is asked about
RegistryLanguages == {"python", "javascript"}
AskedCapabilities == {"analyze_symbol", "find_symbols"}

\* the capability lists a provider may report for a language it supports
CapabilityLists == {get_capabilities(p, "python") : p \in Providers}

\* ProviderInfo(provider=provider, priority=priority)
ProviderInfo(p, prio) == [provider |-> p, priority |-> prio]

\* provider.get_capabilities(language), called now
capabilities_now(p, language) ==
    IF supports_language(p, language) THEN capabilities[p] ELSE {}

\* the records of get_providers whose provider supports the language
RECURSIVE SupportingInfos(_, _)
SupportingInfos(infos, language) ==
    IF infos = <<>> THEN <<>>
    ELSE (IF supports_language(Head(infos).provider, language)
          THEN <<Head(infos)>> ELSE <<>>)
         \o SupportingInfos(Tail(infos), language)

\* (mutant) the smaller priority sorts first
InfoBeforeAscending(a, b) == a.priority < b.priority

\* the order of sort(key=lambda x: x.priority, reverse=True): a sorts
\* strictly before b
InfoBefore(a, b) == a.priority > b.priority

RECURSIVE InsertInfo(_, _)
InsertInfo(s, x) ==
    IF s = <<>> THEN <<x>>
    ELSE IF InfoBefore(x, Head(s)) THEN <<x>> \o s
    ELSE <<Head(s)>> \o InsertInfo(Tail(s), x)

\* providers.sort(key=..., reverse=True): stable
RECURSIVE SortInfos(_)
SortInfos(s) ==
    IF s = <<>> THEN <<>>
    ELSE InsertInfo(SortInfos(SubSeq(s, 1, Len(s) - 1)), s[Len(s)])

\* the list get_providers computes for a language that is not cached
compute_providers(infos, language) ==
    LET sorted == SortInfos(SupportingInfos(infos, language))
    IN [i \in 1..Len(sorted) |-> sorted[i].provider]

\* _language_cache after get_providers(language)
language_cache_after(language) ==
    IF language \in DOMAIN registry_language_cache THEN registry_language_cache
    ELSE Put(registry_language_cache, language,
             compute_providers(registry_providers, language))

\* (mutant) _clear_caches leaves the language cache alone
KeepsLanguageCache(cache) == cache

\* _language_cache after _clear_caches()
ClearedLanguageCache(cache) == <<>>

\* _clear_caches()
clear_caches ==
    /\ registry_language_cache' = ClearedLanguageCache(registry_language_cache)
    /\ best_provider_cache' = <<>>
    /\ capability_cache' = <<>>
    /\ capabilities_changed' = {}

\* register_provider(provider, priority) of the registry
registry_register_provider(p, prio) ==
    /\ Len(registry_providers) < MaxProviders
    /\ registry_providers' = Append(registry_providers, ProviderInfo(p, prio))
    /\ clear_caches
    /\ answer' = [NoAnswer EXCEPT !.call = "register_provider", !.provider = p]
    /\ health_calls' = <<>>
    /\ UNCHANGED <<capabilities, registry_calls, healthy, thread_vars, engine_all, rope_vars,
                   manager_vars, callers>>

\* _find_provider_info(provider): the position of the first record of the
\* provider, 0 for None
find_provider_info(infos, p) ==
    IF \E i \in 1..Len(infos) : infos[i].provider = p
    THEN CHOOSE i \in 1..Len(infos) :
             /\ infos[i].provider = p
             /\ \A j \in 1..(i - 1) : infos[j].provider # p
    ELSE 0

\* list.remove of the element at position i
RemoveAt(s, i) == SubSeq(s, 1, i - 1) \o SubSeq(s, i + 1, Len(s))

\* unload_provider(provider)
unload_provider(p) ==
    /\ registry_calls < MaxCalls
    /\ registry_calls' = registry_calls + 1
    /\ LET i == find_provider_info(registry_providers, p)
       IN IF i # 0
          THEN /\ registry_providers' = RemoveAt(registry_providers, i)
               /\ clear_caches
               /\ health_calls' = <<>>
          ELSE UNCHANGED <<registry_providers, registry_language_cache,
                           best_provider_cache, capability_cache, capabilities_changed,
                           health_calls>>
    /\ answer' = [NoAnswer EXCEPT !.call = "unload_provider", !.provider = p]
    /\ UNCHANGED <<capabilities, healthy, thread_vars, engine_all, rope_vars,
                   manager_vars, callers>>

\* get_providers(language)
get_providers(language) ==
    /\ registry_calls < MaxCalls
    /\ registry_calls' = registry_calls + 1
    /\ registry_language_cache' = language_cache_after(language)
    /\ answer' = [NoAnswer EXCEPT !.call = "get_providers", !.language = language,
                                  !.result = language_cache_after(language)[language]]
    /\ UNCHANGED <<registry_providers, best_provider_cache, capability_cache,
                   capabilities, capabilities_changed, outside_registry>>

\* get_best_provider(language)
get_best_provider(language) ==
    /\ registry_calls < MaxCalls
    /\ registry_calls' = registry_calls + 1
    /\ IF language \in DOMAIN best_provider_cache
       THEN /\ UNCHANGED <<registry_language_cache, best_provider_cache>>
            /\ answer' = [NoAnswer EXCEPT !.call = "get_best_provider",
                                          !.language = language,
                                          !.provider = best_provider_cache[language]]
       ELSE LET found == language_cache_after(language)[language]
                best == IF found = <<>> THEN NoProvider ELSE found[1]
            IN /\ registry_language_cache' = language_cache_after(language)
               /\ best_provider_cache' = Put(best_provider_cache, language, best)
               /\ answer' = [NoAnswer EXCEPT !.call = "get_best_provider",
                                             !.language = language, !.provider = best]
    /\ UNCHANGED <<registry_providers, capability_cache, capabilities,
                   capabilities_changed, outside_registry>>

\* _capability_cache after get_cached_capabilities(language, provider) for
\* every provider of the set `asked`
capability_cache_after(asked, language) ==
    [k \in DOMAIN capability_cache \cup {<<p, language>> : p \in asked} |->
        IF k \in DOMAIN capability_cache THEN capability_cache[k]
        ELSE capabilities_now(k[1], k[2])]

\* (mutant) a provider passes with any capability at all
HasAnyCapability(cached, capability) == cached # {}

\* `capability in capabilities`
HasCapability(cached, capability) == capability \in cached

\* the providers of `found` that pass the capability test of
\* get_providers_with_capability, given the capability cache
RECURSIVE SelectCapable(_, _, _, _)
SelectCapable(found, language, capability, cache) ==
    IF found = <<>> THEN <<>>
    ELSE (IF HasCapability(cache[<<Head(found), language>>], capability)
          THEN <<Head(found)>> ELSE <<>>)
         \o SelectCapable(Tail(found), language, capability, cache)

\* get_providers_with_capability(language, capability)
get_providers_with_capability(language, capability) ==
    /\ registry_calls < MaxCalls
    /\ registry_calls' = registry_calls + 1
    /\ LET found == language_cache_after(language)[language]
           cache == capability_cache_after({found[i] : i \in 1..Len(found)}, language)
       IN /\ registry_language_cache' = language_cache_after(language)
          /\ capability_cache' = cache
          /\ answer' = [NoAnswer EXCEPT
                            !.call = "get_providers_with_capability",
                            !.language = language, !.capability = capability,
                            !.result = SelectCapable(found, language, capability, cache)]
    /\ UNCHANGED <<registry_providers, best_provider_cache, capabilities,
                   capabilities_changed, outside_registry>>

\* get_cached_capabilities(language, provider)
get_cached_capabilities(language, p) ==
    /\ registry_calls < MaxCalls
    /\ registry_calls' = registry_calls + 1
    /\ capability_cache' = capability_cache_after({p}, language)
    /\ answer' = [NoAnswer EXCEPT
                      !.call = "get_cached_capabilities", !.language = language,
                      !.provider = p,
                      !.listed = capability_cache_after({p}, language)[<<p, language>>]]
    /\ UNCHANGED <<registry_providers, registry_language_cache, best_provider_cache,
                   capabilities, capabilities_changed, outside_registry>>

\* a registered provider starts to report another capability list
provider_changes_capabilities(p, listed) ==
    /\ registry_calls < MaxCalls
    /\ registry_calls' = registry_calls + 1
    /\ \E i \in 1..Len(registry_providers) : registry_providers[i].provider = p
    /\ listed # capabilities[p]
    /\ capabilities' = [capabilities EXCEPT ![p] = listed]
    /\ capabilities_changed' = capabilities_changed \cup {p}
    /\ answer' = NoAnswer
    /\ UNCHANGED <<registry_providers, registry_language_cache, best_provider_cache,
                   capability_cache, outside_registry>>

RegistryNext ==
    \/ \E p \in Providers, prio \in RegistryPriorities : registry_register_provider(p, prio)
    \/ \E p \in Providers : unload_provider(p)
    \/ \E language \in RegistryLanguages : get_providers(language)
    \/ \E language \in RegistryLanguages : get_best_provider(language)
    \/ \E language \in RegistryLanguages, capability \in AskedCapabilities :
         get_providers_with_capability(language, capability)
    \/ \E language \in RegistryLanguages,
          p \in {registry_providers[i].provider : i \in 1..Len(registry_providers)} :
         get_cached_capabilities(language, p)
    \/ \E p \in Providers, listed \in CapabilityLists :
         provider_changes_capabilities(p, listed)

\* the registry alone: the engine of engine.py stays as constructed
RegistryOnlyInit ==
    /\ priority = [p \in Providers |-> 10]
    /\ keeps_history = FALSE
    /\ EngineInit
    /\ capabilities = [p \in Providers |-> get_capabilities(p, "python")]
    /\ healthy = [p \in Providers |-> TRUE]
    /\ RegistryInit
    /\ NoProject

RegistrySpec == RegistryOnlyInit /\ [][RegistryNext]_vars

(* ------------------- concurrent callers of the registry --------------- *)
\* the priority of register_provider(provider), its default
DefaultPriority == 1

\* the statement a method starts with: `with self._lock:` where the method
\* has one, the membership test in get_cached_capabilities
FirstStatement(call) ==
    IF call = "get_cached_capabilities" THEN "check_capability" ELSE "acquire"

\* the threads that are inside register_provider
Registering == {t \in Threads : threads[t].call = "register_provider"
                                /\ threads[t].pc # "idle"}

\* thread t calls a method of the registry
enter(t, call, language, p) ==
    /\ threads[t].pc = "idle"
    /\ registry_calls < MaxCalls
    /\ call = "register_provider" =>
         Len(registry_providers) + Cardinality(Registering) < MaxProviders
    /\ registry_calls' = registry_calls + 1
    /\ threads' = [threads EXCEPT ![t] =
                     [Idle EXCEPT !.pc = FirstStatement(call), !.call = call,
                                  !.language = language, !.provider = p,
                                  !.priority = IF call = "register_provider"
                                               THEN DefaultPriority ELSE 0]]
    /\ UNCHANGED <<lock, registry_providers, registry_language_cache,
                   best_provider_cache, capability_cache, capabilities,
                   capabilities_changed, answer, health_vars, engine_all, rope_vars,
                   manager_vars, callers>>

\* the statement after `with self._lock:` in each method
AfterAcquire(thread) ==
    CASE thread.call = "register_provider" -> "append"
      [] thread.call = "unload_provider" -> "remove"
      [] thread.call = "get_providers" -> "fill_language_cache"
      [] thread.call = "get_best_provider" ->
           IF lock.depth = 0 THEN "check_best" ELSE "fill_language_cache"

\* `with self._lock:` is entered: the lock is free, or the thread holds it
acquire(t) ==
    /\ threads[t].pc = "acquire"
    /\ lock.holder \in {NoThread, t}
    /\ lock' = [holder |-> t, depth |-> lock.depth + 1]
    /\ threads' = [threads EXCEPT ![t].pc = AfterAcquire(threads[t])]
    /\ UNCHANGED <<registry_vars, health_vars, engine_all, rope_vars,
                   manager_vars, callers>>

\* the `with self._lock:` block is left; get_best_provider goes on after the
\* get_providers it called
release(t) ==
    /\ threads[t].pc = "release"
    /\ lock' = IF lock.depth = 1 THEN Unlocked
               ELSE [lock EXCEPT !.depth = lock.depth - 1]
    /\ threads' = [threads EXCEPT ![t].pc =
                     IF lock.depth = 1 THEN "idle" ELSE "store_best"]
    /\ UNCHANGED <<registry_vars, health_vars, engine_all, rope_vars,
                   manager_vars, callers>>

\* self._providers.append(provider_info)
append(t) ==
    /\ threads[t].pc = "append"
    /\ registry_providers' =
         Append(registry_providers,
                ProviderInfo(threads[t].provider, threads[t].priority))
    /\ threads' = [threads EXCEPT ![t].pc = "clear_language_cache"]
    /\ UNCHANGED <<lock, registry_language_cache, best_provider_cache,
                   capability_cache, capabilities, capabilities_changed,
                   registry_calls, answer, health_vars, engine_all, rope_vars,
                   manager_vars, callers>>

\* provider_info = self._find_provider_info(provider), and
\* self._providers.remove(provider_info) if there is one
remove(t) ==
    /\ threads[t].pc = "remove"
    /\ LET i == find_provider_info(registry_providers, threads[t].provider)
       IN IF i # 0
          THEN /\ registry_providers' = RemoveAt(registry_providers, i)
               /\ threads' = [threads EXCEPT ![t].pc = "clear_language_cache"]
          ELSE /\ UNCHANGED registry_providers
               /\ threads' = [threads EXCEPT ![t].pc = "release"]
    /\ UNCHANGED <<lock, registry_language_cache, best_provider_cache,
                   capability_cache, capabilities, capabilities_changed,
                   registry_calls, answer, health_vars, engine_all, rope_vars,
                   manager_vars, callers>>

\* self._language_cache.clear()
clear_language_cache(t) ==
    /\ threads[t].pc = "clear_language_cache"
    /\ registry_language_cache' = ClearedLanguageCache(registry_language_cache)
    /\ threads' = [threads EXCEPT ![t].pc = "clear_best_provider_cache"]
    /\ UNCHANGED <<lock, registry_providers, best_provider_cache,
                   capability_cache, capabilities, capabilities_changed,
                   registry_calls, answer, health_vars, engine_all, rope_vars,
                   manager_vars, callers>>

\* self._best_provider_cache.clear()
clear_best_provider_cache(t) ==
    /\ threads[t].pc = "clear_best_provider_cache"
    /\ best_provider_cache' = <<>>
    /\ threads' = [threads EXCEPT ![t].pc = "clear_capability_cache"]
    /\ UNCHANGED <<lock, registry_providers, registry_language_cache,
                   capability_cache, capabilities, capabilities_changed,
                   registry_calls, answer, health_vars, engine_all, rope_vars,
                   manager_vars, callers>>

\* self._capability_cache.clear()
clear_capability_cache(t) ==
    /\ threads[t].pc = "clear_capability_cache"
    /\ capability_cache' = <<>>
    /\ capabilities_changed' = {}
    /\ threads' = [threads EXCEPT ![t].pc = "release"]
    /\ UNCHANGED <<lock, registry_providers, registry_language_cache,
                   best_provider_cache, capabilities, registry_calls, answer,
                   health_vars, engine_all, rope_vars,
                   manager_vars, callers>>

\* the body of get_providers: the list is computed and cached if it is not
\* cached, and a copy of the cached list is returned
fill_language_cache(t) ==
    /\ threads[t].pc = "fill_language_cache"
    /\ registry_language_cache' = language_cache_after(threads[t].language)
    /\ threads' = [threads EXCEPT
                     ![t].found = language_cache_after(threads[t].language)
                                      [threads[t].language],
                     ![t].pc = "release"]
    /\ UNCHANGED <<lock, registry_providers, best_provider_cache,
                   capability_cache, capabilities, capabilities_changed,
                   registry_calls, answer, health_vars, engine_all, rope_vars,
                   manager_vars, callers>>

\* `if language not in self._best_provider_cache:` of get_best_provider;
\* get_providers is called when the language is not cached
check_best(t) ==
    /\ threads[t].pc = "check_best"
    /\ threads' = [threads EXCEPT ![t].pc =
                     IF threads[t].language \in DOMAIN best_provider_cache
                     THEN "return_best" ELSE "acquire"]
    /\ UNCHANGED <<lock, registry_vars, health_vars, engine_all, rope_vars,
                   manager_vars, callers>>

\* self._best_provider_cache[language] = providers[0] if providers else None
store_best(t) ==
    /\ threads[t].pc = "store_best"
    /\ best_provider_cache' =
         Put(best_provider_cache, threads[t].language,
             IF threads[t].found = <<>> THEN NoProvider ELSE threads[t].found[1])
    /\ threads' = [threads EXCEPT ![t].pc = "return_best"]
    /\ UNCHANGED <<lock, registry_providers, registry_language_cache,
                   capability_cache, capabilities, capabilities_changed,
                   registry_calls, answer, health_vars, engine_all, rope_vars,
                   manager_vars, callers>>

\* return self._best_provider_cache[language]
return_best(t) ==
    /\ threads[t].pc = "return_best"
    /\ threads' = [threads EXCEPT
                     ![t].best = best_provider_cache[threads[t].language],
                     ![t].pc = "release"]
    /\ UNCHANGED <<lock, registry_vars, health_vars, engine_all, rope_vars,
                   manager_vars, callers>>

\* the cache key of get_cached_capabilities
cache_key(thread) == <<thread.provider, thread.language>>

\* `if cache_key not in self._capability_cache:`
check_capability(t) ==
    /\ threads[t].pc = "check_capability"
    /\ threads' = [threads EXCEPT ![t].pc =
                     IF cache_key(threads[t]) \in DOMAIN capability_cache
                     THEN "return_capabilities" ELSE "store_capabilities"]
    /\ UNCHANGED <<lock, registry_vars, health_vars, engine_all, rope_vars,
                   manager_vars, callers>>

\* capabilities = provider.get_capabilities(language), and
\* self._capability_cache[cache_key] = capabilities
store_capabilities(t) ==
    /\ threads[t].pc = "store_capabilities"
    /\ capability_cache' =
         Put(capability_cache, cache_key(threads[t]),
             capabilities_now(threads[t].provider, threads[t].language))
    /\ threads' = [threads EXCEPT ![t].pc = "return_capabilities"]
    /\ UNCHANGED <<lock, registry_providers, registry_language_cache,
                   best_provider_cache, capabilities, capabilities_changed,
                   registry_calls, answer, health_vars, engine_all, rope_vars,
                   manager_vars, callers>>

\* return self._capability_cache[cache_key]: a KeyError when the key is not
\* in the dict
return_capabilities(t) ==
    /\ threads[t].pc = "return_capabilities"
    /\ threads' = [threads EXCEPT ![t] =
                     IF cache_key(threads[t]) \in DOMAIN capability_cache
                     THEN [threads[t] EXCEPT
                              !.listed = capability_cache[cache_key(threads[t])],
                              !.pc = "idle"]
                     ELSE [threads[t] EXCEPT !.raised = "KeyError", !.pc = "idle"]]
    /\ UNCHANGED <<lock, registry_vars, health_vars, engine_all, rope_vars,
                   manager_vars, callers>>

\* the methods that take a provider, and those that take a language
ProviderMethods == {"register_provider", "unload_provider"}
LanguageMethods == {"get_providers", "get_best_provider"}

ConcurrentNext ==
    \E t \in Threads :
        \/ \E call \in ProviderMethods, p \in Providers : enter(t, call, "", p)
        \/ \E call \in LanguageMethods, language \in RegistryLanguages :
             enter(t, call, language, NoProvider)
        \/ \E language \in RegistryLanguages, p \in Providers :
             enter(t, "get_cached_capabilities", language, p)
        \/ acquire(t)
        \/ release(t)
        \/ append(t)
        \/ remove(t)
        \/ clear_language_cache(t)
        \/ clear_best_provider_cache(t)
        \/ clear_capability_cache(t)
        \/ fill_language_cache(t)
        \/ check_best(t)
        \/ store_best(t)
        \/ return_best(t)
        \/ check_capability(t)
        \/ store_capabilities(t)
        \/ return_capabilities(t)

(* ------------------------ provider health checks ---------------------- *)
\* the providers that have an is_healthy method
HasHealthCheck == {"A", "B"}

\* (mutant) the health found by the call before is used again
HealthyAsBefore(p) ==
    IF health_calls # <<>>
    THEN p \in health_calls[Len(health_calls)].reported
    ELSE p \in HasHealthCheck => healthy[p]

\* _is_provider_healthy(provider)
is_provider_healthy(p) == p \in HasHealthCheck => healthy[p]

\* the providers of `found` that pass the health check, in order
RECURSIVE SelectHealthy(_)
SelectHealthy(found) ==
    IF found = <<>> THEN <<>>
    ELSE (IF is_provider_healthy(Head(found)) THEN <<Head(found)>> ELSE <<>>)
         \o SelectHealthy(Tail(found))

\* get_healthy_providers(language)
get_healthy_providers(language) ==
    /\ registry_calls < MaxCalls
    /\ registry_calls' = registry_calls + 1
    /\ LET found == language_cache_after(language)[language]
           result == SelectHealthy(found)
       IN /\ registry_language_cache' = language_cache_after(language)
          /\ answer' = [NoAnswer EXCEPT !.call = "get_healthy_providers",
                                        !.language = language, !.result = result]
          /\ health_calls' =
               Append(IF Len(health_calls) > 1 THEN Tail(health_calls)
                      ELSE health_calls,
                      [language |-> language, result |-> result,
                       reported |-> {p \in Providers :
                                       p \notin HasHealthCheck \/ healthy[p]}])
    /\ UNCHANGED <<registry_providers, best_provider_cache, capability_cache,
                   capabilities, capabilities_changed, healthy, thread_vars,
                   engine_all, rope_vars,
                   manager_vars, callers>>

\* is_healthy() of a provider starts to return the other value
provider_changes_health(p) ==
    /\ registry_calls < MaxCalls
    /\ registry_calls' = registry_calls + 1
    /\ healthy' = [healthy EXCEPT ![p] = ~healthy[p]]
    /\ answer' = NoAnswer
    /\ UNCHANGED <<registry_providers, registry_language_cache, best_provider_cache,
                   capability_cache, capabilities, capabilities_changed,
                   health_calls, thread_vars, engine_all, rope_vars,
                   manager_vars, callers>>

\* (mutant) only the providers that report healthy are tried
TriesHealthyOnly(found) == SelectHealthy(found)

\* execute_with_fallback: the providers the loop goes through, all of
\* get_providers(language)
fallback_providers(found) == found

\* the RuntimeError of execute_with_fallback, chained from the exception of
\* the provider at place `cause` of the list (0: not chained)
RuntimeError(message, cause) ==
    [kind |-> "raised", by |-> NoProvider, message |-> message, cause |-> cause]

\* the place of the first provider of the list that returns, 0 if each raises
FirstReturning(outs) ==
    IF \A i \in 1..Len(outs) : outs[i] = "raise" THEN 0
    ELSE CHOOSE i \in 1..Len(outs) :
             /\ outs[i] # "raise"
             /\ \A j \in 1..(i - 1) : outs[j] = "raise"

\* registry.execute_with_fallback(operation, language, ...), where the
\* operation of the i-th provider of the list ends as outs[i] if called
registry_execute_with_fallback(language, outs) ==
    /\ registry_calls < MaxCalls
    /\ registry_calls' = registry_calls + 1
    /\ registry_language_cache' = language_cache_after(language)
    /\ LET found == fallback_providers(language_cache_after(language)[language])
           first == FirstReturning(outs)
           tried == IF first = 0 THEN found ELSE SubSeq(found, 1, first)
           healthy_providers_tried ==
               SelectSeq(SubSeq(found, 1, IF first = 0 THEN Len(found) ELSE first - 1),
                         is_provider_healthy)
           result ==
               IF found = <<>>
               THEN RuntimeError("No providers available", 0)
               ELSE IF first # 0
               THEN [kind |-> "returned", by |-> found[first], message |-> "",
                     cause |-> 0]
               ELSE IF healthy_providers_tried = <<>>
               THEN RuntimeError("No healthy providers available", 0)
               ELSE RuntimeError("All providers failed", Len(found))
       IN /\ Len(outs) = Len(found)
          /\ answer' = [NoAnswer EXCEPT !.call = "execute_with_fallback",
                                        !.language = language,
                                        !.result = [outcome |-> result, tried |-> tried,
                                                    outs |-> outs]]
    /\ UNCHANGED <<registry_providers, best_provider_cache, capability_cache,
                   capabilities, capabilities_changed, outside_registry>>

HealthNext ==
    \/ \E p \in Providers, prio \in RegistryPriorities : registry_register_provider(p, prio)
    \/ \E p \in Providers : unload_provider(p)
    \/ \E language \in RegistryLanguages : get_healthy_providers(language)
    \/ \E p \in HasHealthCheck : provider_changes_health(p)
    \/ \E language \in RegistryLanguages :
         \E outs \in UNION {[1..n -> {"success", "raise"}] : n \in 0..MaxProviders} :
            registry_execute_with_fallback(language, outs)

\* the registry and providers that are healthy or not when it is built
HealthInit ==
    /\ priority = [p \in Providers |-> 10]
    /\ keeps_history = FALSE
    /\ EngineInit
    /\ capabilities = [p \in Providers |-> get_capabilities(p, "python")]
    /\ healthy \in {h \in [Providers -> BOOLEAN] :
                      \A p \in Providers \ HasHealthCheck : h[p]}
    /\ RegistryInit
    /\ NoProject

HealthSpec == HealthInit /\ [][HealthNext]_vars

\* the registry called by several threads at once
ConcurrentSpec == RegistryOnlyInit /\ [][ConcurrentNext]_vars



(* --------------------------- the rope provider ------------------------ *)
\* symbol_name.split(".")[-1]
search_name(symbol) == symbol[Len(symbol)]

\* the lines of a file with a FunctionDef of the name: the nodes of
\* ast.walk that have a `name` attribute equal to it
NamedNodes(file, name) ==
    {s \in Slots : file.defs[s].kind = "function" /\ file.defs[s].name = name}

\* the lines of a file with an assignment to the name
AssignedNames(file, name) ==
    {s \in Slots : file.defs[s].kind = "variable" /\ file.defs[s].name = name}

\* the smallest of a nonempty set of lines: the first node ast.walk yields
First(lines) == CHOOSE s \in lines : \A r \in lines : s <= r

\* the loop of _find_resource over project.get_files(): the first file of
\* the rest of the scan that defines the name, <<>> for None
RECURSIVE ScanFor(_, _, _)
ScanFor(project, rest, name) ==
    IF rest = <<>> THEN <<>>
    ELSE IF project[Head(rest)].exists /\ NamedNodes(project[Head(rest)], name) # {}
         THEN Head(rest)
         ELSE ScanFor(project, Tail(rest), name)

\* _find_resource(project, symbol_name): a dotted name is first tried as the
\* module path symbol_name.replace(".", os.sep) + ".py", then the files are
\* scanned for the last component
find_resource(project, order, symbol) ==
    IF Len(symbol) > 1 /\ symbol \in RopePaths /\ project[symbol].exists
    THEN symbol
    ELSE ScanFor(project, order, search_name(symbol))

\* _create_symbol_info
create_symbol_info(resource, slot, name, type, symbol) ==
    [resource |-> resource, slot |-> slot, name |-> name, type |-> type,
     qualified_name |-> symbol]

\* what _resolve_symbol finds in the files, the cache aside
resolve_in_files(project, order, symbol) ==
    LET resource == find_resource(project, order, symbol)
        name == search_name(symbol)
    IN IF resource = <<>> THEN NoSymbol
       ELSE IF NamedNodes(project[resource], name) # {}
            THEN create_symbol_info(resource, First(NamedNodes(project[resource], name)),
                                    name, "function", symbol)
       ELSE IF AssignedNames(project[resource], name) # {}
            THEN create_symbol_info(resource, First(AssignedNames(project[resource], name)),
                                    name, "variable", symbol)
       ELSE NoSymbol

\* _resolve_symbol(project, symbol_name), given the symbol cache
resolve_symbol(cache, project, order, symbol) ==
    IF symbol \in DOMAIN cache THEN cache[symbol]
    ELSE resolve_in_files(project, order, symbol)

\* _symbol_cache after _resolve_symbol: a symbol that is found is stored
cache_after_resolve(cache, project, order, symbol) ==
    IF symbol \in DOMAIN cache \/ resolve_in_files(project, order, symbol) = NoSymbol
    THEN cache
    ELSE [k \in DOMAIN cache \cup {symbol} |->
            IF k = symbol THEN resolve_in_files(project, order, symbol) ELSE cache[k]]

\* (mutant) a failed result that keeps no error type
FailureWithoutKind(operation, error_type, conflicts) ==
    [DefaultResult EXCEPT !.operation = operation, !.conflicts = conflicts]

\* a failed result: XResult(success=False, error_type=..., message=...),
\* and conflicts=... for a naming conflict
Failure(operation, error_type, conflicts) ==
    [DefaultResult EXCEPT !.operation = operation, !.error_type = error_type,
                          !.conflicts = conflicts]

\* analyze_symbol(params): find_occurrences finds the definition where the
\* symbol info points, if the file still has one there
analyze_result(cache, project, order, symbol) ==
    LET info == resolve_symbol(cache, project, order, symbol)
    IN IF info = NoSymbol THEN Failure("analyze_symbol", "symbol_not_found", <<>>)
       ELSE LET references ==
                    IF project[info.resource].defs[info.slot].name = info.name
                    THEN <<info.resource>> ELSE <<>>
            IN [DefaultResult EXCEPT
                  !.operation = "analyze_symbol", !.success = TRUE,
                  !.symbol_info = [name |-> info.name, qualified_name |-> symbol,
                                   type |-> info.type,
                                   definition_location |->
                                       [file |-> info.resource, line |-> info.slot]],
                  !.references = references,
                  !.reference_count = Len(references)]

\* _matches_pattern(symbol_name, pattern): fnmatch for a pattern with a
\* wildcard, substring otherwise; the names are single letters
matches_pattern(name, pattern) == pattern = "*" \/ pattern = name

\* _extract_module_symbols of one file, for the pattern: the defs by line
RECURSIVE ModuleMatches(_, _, _, _)
ModuleMatches(project, resource, pattern, slot) ==
    IF slot \notin Slots THEN <<>>
    ELSE (IF project[resource].defs[slot].kind = "function"
             /\ matches_pattern(project[resource].defs[slot].name, pattern)
          THEN <<[name |-> project[resource].defs[slot].name,
                  definition_location |-> [file |-> resource, line |-> slot]]>>
          ELSE <<>>)
         \o ModuleMatches(project, resource, pattern, slot + 1)

\* the loop of find_symbols over project.get_files()
RECURSIVE AllMatches(_, _, _)
AllMatches(project, rest, pattern) ==
    IF rest = <<>> THEN <<>>
    ELSE (IF project[Head(rest)].exists
          THEN ModuleMatches(project, Head(rest), pattern, 1) ELSE <<>>)
         \o AllMatches(project, Tail(rest), pattern)

\* the matches among the further functions of the project: they are all
\* named f
MoreMatches(pattern) ==
    IF matches_pattern("f", pattern)
    THEN [k \in 1..more_functions |->
             [name |-> "f",
              definition_location |-> [file |-> <<"more">>, line |-> k]]]
    ELSE <<>>

\* (mutant) every match is returned
Uncapped(matches) == matches

\* matches[:100]
Capped(matches) == SubSeq(matches, 1, Min2(Len(matches), MaxMatches))

\* find_symbols(params)
find_result(project, order, pattern) ==
    LET matches == AllMatches(project, order, pattern) \o MoreMatches(pattern)
    IN [DefaultResult EXCEPT
          !.operation = "find_symbols", !.success = TRUE,
          !.matches = Capped(matches),
          !.total_count = Len(matches)]

\* _check_rename_conflicts(project, symbol_info, new_name): the lines of the
\* symbol's file whose node has the attribute name equal to new_name
check_rename_conflicts(project, info, new_name) ==
    NamedNodes(project[info.resource], new_name)

\* the conflict list, by line
RECURSIVE ConflictList(_, _, _)
ConflictList(resource, lines, slot) ==
    IF slot \notin Slots THEN <<>>
    ELSE (IF slot \in lines THEN <<[file |-> resource, line |-> slot]>> ELSE <<>>)
         \o ConflictList(resource, lines, slot + 1)

\* rename_symbol(params), with what the rope library does
rename_result(cache, project, order, symbol, new_name, rope) ==
    LET info == resolve_symbol(cache, project, order, symbol)
    IN IF info = NoSymbol THEN Failure("rename_symbol", "symbol_not_found", <<>>)
       ELSE IF check_rename_conflicts(project, info, new_name) # {}
       THEN Failure("rename_symbol", "naming_conflict",
                    ConflictList(info.resource,
                                 check_rename_conflicts(project, info, new_name), 1))
       ELSE IF rope = "raise" THEN Failure("rename_symbol", "rename_error", <<>>)
       ELSE [DefaultResult EXCEPT
               !.operation = "rename_symbol", !.success = TRUE,
               !.old_name = symbol, !.new_name = new_name,
               !.files_modified = <<info.resource>>,
               !.references_updated = 1, !.backup_id = "uuid"]

\* the project after rename_symbol: project.do(changes) renames the
\* definition the symbol info points to
files_after_rename(cache, project, order, symbol, new_name, rope) ==
    LET info == resolve_symbol(cache, project, order, symbol)
    IN IF rename_result(cache, project, order, symbol, new_name, rope).success
       THEN [project EXCEPT ![info.resource].defs[info.slot].name = new_name]
       ELSE project

\* _parse_extraction_source(source): None for a source without a dot, else
\* the second component is the function
parse_extraction_source(source) ==
    IF Len(source) < 2 THEN <<>> ELSE <<source[2]>>

\* the lines of a file without a definition
FreeLines(file) == {s \in Slots : file.defs[s].kind = "none"}

\* extract_element(params), with what the rope library does; ExtractMethod
\* needs room in the file
extract_result(project, order, source, new_name, rope) ==
    LET function == parse_extraction_source(source)
        resource == find_resource(project, order, function)
    IN IF function = <<>> THEN Failure("extract_element", "invalid_source", <<>>)
       ELSE IF resource = <<>>
       THEN Failure("extract_element", "resource_not_found", <<>>)
       ELSE IF rope = "raise" \/ FreeLines(project[resource]) = {}
       THEN Failure("extract_element", "extraction_error", <<>>)
       ELSE [DefaultResult EXCEPT
               !.operation = "extract_element", !.success = TRUE,
               !.source = source, !.new_name = new_name,
               !.extracted_code = "code", !.files_modified = <<resource>>,
               !.backup_id = "uuid"]

\* the project after extract_element: the new function is in the file
files_after_extract(project, order, source, new_name, rope) ==
    LET resource == find_resource(project, order, parse_extraction_source(source))
    IN IF extract_result(project, order, source, new_name, rope).success
       THEN [project EXCEPT ![resource].defs[First(FreeLines(project[resource]))] =
                                Definition(new_name, "function")]
       ELSE project

\* f"lambda_{lambda_count}"
lambda_name(lambda_count) == "lambda_" \o ToString(lambda_count)

\* (mutant) the comprehensions are counted and listed like the lambdas
IsExpression(kind) == kind \in NodeKinds

\* isinstance(node, ast.Lambda)
IsLambda(kind) == kind = "Lambda"

\* _find_extractable_elements(project, function_info): the loop over
\* ast.walk(function_node), lambda_count being the lambdas met so far
RECURSIVE find_extractable_elements(_, _, _)
find_extractable_elements(info, line, nodes) ==
    IF nodes = <<>> THEN <<>>
    ELSE LET before == find_extractable_elements(info, line, SubSeq(nodes, 1, Len(nodes) - 1))
         IN IF IsLambda(nodes[Len(nodes)])
            THEN Append(before,
                        [id |-> info.qualified_name \o <<lambda_name(Len(before) + 1)>>,
                         type |-> "lambda",
                         location |-> [file |-> info.resource, line |-> line],
                         extractable |-> TRUE])
            ELSE before

\* show_function(params)
show_result(cache, project, order, symbol) ==
    LET info == resolve_symbol(cache, project, order, symbol)
    IN IF info = NoSymbol \/ info.type # "function"
       THEN Failure("show_function", "function_not_found", <<>>)
       ELSE [DefaultResult EXCEPT
               !.operation = "show_function", !.success = TRUE,
               !.function_name = symbol,
               !.extractable_elements =
                   IF NamedNodes(project[info.resource], info.name) # {}
                   THEN find_extractable_elements(
                            info, First(NamedNodes(project[info.resource], info.name)),
                            body)
                   ELSE <<>>]

\* the part of every provider call that is not its result
Called(call) ==
    /\ rope_calls < MaxRopeCalls
    /\ rope_calls' = rope_calls + 1
    /\ rope_call' = call
    /\ project_cache' = project_cache \cup {project_root}
    /\ files_before' = project_files
    /\ UNCHANGED <<scan_order, more_functions, body, outside_rope>>

analyze_symbol(symbol) ==
    /\ Called([NoRopeCall EXCEPT
                  !.operation = "analyze_symbol", !.symbol = symbol,
                  !.resolved = resolve_symbol(symbol_cache, project_files,
                                              scan_order, symbol)])
    /\ rope_result' = analyze_result(symbol_cache, project_files, scan_order, symbol)
    /\ fresh_result' = analyze_result(<<>>, project_files, scan_order, symbol)
    /\ symbol_cache' = cache_after_resolve(symbol_cache, project_files, scan_order, symbol)
    /\ UNCHANGED project_files

find_symbols(pattern) ==
    /\ Called([NoRopeCall EXCEPT !.operation = "find_symbols", !.pattern = pattern])
    /\ rope_result' = find_result(project_files, scan_order, pattern)
    /\ fresh_result' = find_result(project_files, scan_order, pattern)
    /\ UNCHANGED <<project_files, symbol_cache>>

rename_symbol(symbol, new_name, rope) ==
    /\ Called([NoRopeCall EXCEPT
                  !.operation = "rename_symbol", !.symbol = symbol,
                  !.new_name = new_name,
                  !.resolved = resolve_symbol(symbol_cache, project_files,
                                              scan_order, symbol)])
    /\ rope_result' = rename_result(symbol_cache, project_files, scan_order, symbol, new_name, rope)
    /\ fresh_result' = rename_result(<<>>, project_files, scan_order, symbol, new_name, rope)
    /\ symbol_cache' = cache_after_resolve(symbol_cache, project_files, scan_order, symbol)
    /\ project_files' = files_after_rename(symbol_cache, project_files, scan_order, symbol, new_name, rope)

extract_element(source, new_name, rope) ==
    /\ Called([NoRopeCall EXCEPT
                  !.operation = "extract_element", !.symbol = source,
                  !.new_name = new_name,
                  !.resolved =
                      [NoSymbol EXCEPT !.resource =
                          IF parse_extraction_source(source) = <<>> THEN <<>>
                          ELSE find_resource(project_files, scan_order,
                                             parse_extraction_source(source))]])
    /\ rope_result' = extract_result(project_files, scan_order, source, new_name, rope)
    /\ fresh_result' = extract_result(project_files, scan_order, source, new_name, rope)
    /\ project_files' = files_after_extract(project_files, scan_order, source, new_name, rope)
    /\ UNCHANGED symbol_cache

show_function(symbol) ==
    /\ Called([NoRopeCall EXCEPT
                  !.operation = "show_function", !.symbol = symbol,
                  !.resolved = resolve_symbol(symbol_cache, project_files,
                                              scan_order, symbol)])
    /\ rope_result' = show_result(symbol_cache, project_files, scan_order, symbol)
    /\ fresh_result' = show_result(<<>>, project_files, scan_order, symbol)
    /\ symbol_cache' = cache_after_resolve(symbol_cache, project_files, scan_order, symbol)
    /\ UNCHANGED project_files

\* _clear_cache()
clear_cache ==
    /\ project_cache # {} \/ symbol_cache # <<>>
    /\ project_cache' = {}
    /\ symbol_cache' = <<>>
    /\ UNCHANGED <<project_files, scan_order, rope_calls, rope_call, rope_result,
                   fresh_result, files_before, more_functions, body, outside_rope>>

RopeNext ==
    \/ \E symbol \in SymbolNames : analyze_symbol(symbol)
    \/ \E pattern \in Patterns : find_symbols(pattern)
    \/ \E symbol \in SymbolNames, new_name \in NewRopeNames, rope \in RopeOutcomes :
         rename_symbol(symbol, new_name, rope)
    \/ \E source \in ExtractionSources, new_name \in NewRopeNames, rope \in RopeOutcomes :
         extract_element(source, new_name, rope)
    \/ \E symbol \in SymbolNames : show_function(symbol)
    \/ clear_cache

\* the kinds of definition the files start with
Kinds == {"function", "variable"}

\* the projects the provider is tried on: a.py defines a function x or
\* not, m.py defines x or not and y or not, m/x.py exists or not and
\* assigns x
Projects ==
    {[p \in RopePaths |->
        CASE p = <<"a">> -> FileOf(a1, NoDefinition)
          [] p = <<"m">> -> FileOf(m1, m2)
          [] OTHER -> mx] :
     a1 \in {NoDefinition, Definition("x", "function")},
     m1 \in {NoDefinition} \cup {Definition("x", k) : k \in Kinds},
     m2 \in {NoDefinition} \cup {Definition("y", k) : k \in Kinds},
     mx \in {NoFile, FileOf(Definition("x", "variable"), NoDefinition)}}

\* the orders of project.get_files()
ScanOrders == {<<<<"a">>, <<"m">>, <<"m", "x">>>>, <<<<"m">>, <<"a">>, <<"m", "x">>>>}

\* a new RopeProvider in one of the projects
RopeInit ==
    /\ priority = [p \in Providers |-> 10]
    /\ keeps_history = FALSE
    /\ EngineInit
    /\ capabilities = [p \in Providers |-> get_capabilities(p, "python")]
    /\ healthy = [p \in Providers |-> TRUE]
    /\ RegistryInit
    /\ project_files \in Projects
    /\ scan_order \in ScanOrders
    /\ more_functions = 0
    /\ body = OneLambda
    /\ RopeProviderInit

RopeSpec == RopeInit /\ [][RopeNext]_vars

\* the queries of the rope provider on larger projects
QueryNext ==
    \/ \E pattern \in Patterns : find_symbols(pattern)
    \/ \E symbol \in SymbolNames : show_function(symbol)
    \/ clear_cache

\* the function bodies the provider is tried on
Bodies == UNION {[1..n -> NodeKinds] : n \in 0..MaxNodes}

\* how many further functions the project may define: with the at most
\* three functions of the files a.py and m.py this gives fewer than, exactly
\* and more than MaxMatches functions
MoreFunctions == {0, MaxMatches - 2, MaxMatches + 50}

\* a project with many functions whose bodies hold one lambda, or with few
\* functions and any body
QueryInit ==
    /\ priority = [p \in Providers |-> 10]
    /\ keeps_history = FALSE
    /\ EngineInit
    /\ capabilities = [p \in Providers |-> get_capabilities(p, "python")]
    /\ healthy = [p \in Providers |-> TRUE]
    /\ RegistryInit
    /\ project_files \in Projects
    /\ scan_order \in ScanOrders
    /\ \/ more_functions \in MoreFunctions /\ body = OneLambda
       \/ more_functions = 0 /\ body \in Bodies
    /\ RopeProviderInit

QuerySpec == QueryInit /\ [][QueryNext]_vars


(* ------------------ concurrent callers of the engine ------------------ *)
\* what a statement of _execute_with_provider leaves alone
outside_callers ==
    <<priority, providers, language_cache, active_backups, disk_backups, pc, cur,
      sorted_providers, idx, last_exception, calls, outcome, current_health,
      keeps_history, registry_vars, thread_vars, health_vars, rope_vars, manager_vars>>

\* caller c is at statement `at` of its attempt
At(c, at) == callers[c].at = at

\* caller c goes on to statement `at`
Goto(c, at) == callers' = [callers EXCEPT ![c].at = at]

\* a fallback operation of caller c reaches _execute_with_provider for
\* provider p; the engine has no lock
enter_execute_with_provider(c, p) ==
    /\ At(c, "idle")
    /\ ops_started < MaxOps
    /\ ops_started' = ops_started + 1
    /\ callers' = [callers EXCEPT ![c] = [NotCalling EXCEPT !.at = "read_call_count",
                                                            !.provider = p]]
    /\ attempts' = [attempts EXCEPT ![ProviderName(p)].made = @ + 1]
    /\ UNCHANGED <<provider_metrics, provider_health, outside_callers>>

\* self._provider_metrics[provider_name]['call_count'] += 1, the read
read_call_count(c) ==
    /\ At(c, "read_call_count")
    /\ callers' = [callers EXCEPT
                     ![c].at = "write_call_count",
                     ![c].read = provider_metrics[ProviderName(callers[c].provider)].call_count]
    /\ UNCHANGED <<provider_metrics, provider_health, attempts, ops_started,
                   outside_callers>>

\* self._provider_metrics[provider_name]['call_count'] += 1, the write
write_call_count(c) ==
    /\ At(c, "write_call_count")
    /\ provider_metrics' =
           [provider_metrics EXCEPT
              ![ProviderName(callers[c].provider)].call_count = callers[c].read + 1]
    /\ Goto(c, "call")
    /\ UNCHANGED <<provider_health, attempts, ops_started, outside_callers>>

\* the provider method returns a result or raises
call_provider(c, o) ==
    /\ At(c, "call")
    /\ callers' = [callers EXCEPT
                     ![c].at = IF Raises(o) THEN "read_failure_count" ELSE "health_up",
                     ![c].raises = Raises(o)]
    /\ attempts' = [attempts EXCEPT
                      ![ProviderName(callers[c].provider)].raised =
                          @ + (IF Raises(o) THEN 1 ELSE 0)]
    /\ UNCHANGED <<provider_metrics, provider_health, ops_started, outside_callers>>

\* self._provider_health[provider_name] = min(1.0, current_health + 0.01)
health_up(c) ==
    /\ At(c, "health_up")
    /\ provider_health' =
           [provider_health EXCEPT
              ![ProviderName(callers[c].provider)] = HealthAfterSuccess(@)]
    /\ callers' = [callers EXCEPT ![c] = NotCalling]
    /\ UNCHANGED <<provider_metrics, attempts, ops_started, outside_callers>>

\* metrics['failure_count'] += 1, the read
read_failure_count(c) ==
    /\ At(c, "read_failure_count")
    /\ callers' = [callers EXCEPT
                     ![c].at = "write_failure_count",
                     ![c].read = provider_metrics[ProviderName(callers[c].provider)].failure_count]
    /\ UNCHANGED <<provider_metrics, provider_health, attempts, ops_started,
                   outside_callers>>

\* metrics['failure_count'] += 1, the write
write_failure_count(c) ==
    /\ At(c, "write_failure_count")
    /\ provider_metrics' =
           [provider_metrics EXCEPT
              ![ProviderName(callers[c].provider)].failure_count = callers[c].read + 1]
    /\ Goto(c, "health_down")
    /\ UNCHANGED <<provider_health, attempts, ops_started, outside_callers>>

\* self._provider_health[provider_name] = max(0.0, 1.0 - failure_rate),
\* and the exception is raised again
health_down(c) ==
    /\ At(c, "health_down")
    /\ LET m == provider_metrics[ProviderName(callers[c].provider)]
       IN provider_health' =
              [provider_health EXCEPT
                 ![ProviderName(callers[c].provider)] =
                     HealthAfterFailure(m.failure_count, m.call_count)]
    /\ callers' = [callers EXCEPT ![c] = NotCalling]
    /\ UNCHANGED <<provider_metrics, attempts, ops_started, outside_callers>>

CallersNext ==
    \E c \in Callers :
       \/ \E p \in {providers[i] : i \in 1..Len(providers)} :
            enter_execute_with_provider(c, p)
       \/ read_call_count(c)
       \/ write_call_count(c)
       \/ \E o \in CallOutcomes : call_provider(c, o)
       \/ health_up(c)
       \/ read_failure_count(c)
       \/ write_failure_count(c)
       \/ health_down(c)

\* an engine with the providers A and B registered, and no caller inside
CallersInit ==
    /\ priority = [p \in Providers |-> 10]
    /\ keeps_history = FALSE
    /\ providers = <<"A", "B">>
    /\ provider_metrics = [n \in {"A", "B"} |-> [call_count |-> 0, failure_count |-> 0]]
    /\ provider_health = [n \in {"A", "B"} |-> FullHealth]
    /\ language_cache = <<>>
    /\ active_backups = {}
    /\ disk_backups = {}
    /\ ops_started = 0
    /\ pc = "idle"
    /\ cur = NoOperation
    /\ sorted_providers = <<>>
    /\ idx = 0
    /\ last_exception = NoException
    /\ calls = <<>>
    /\ outcome = NoOutcome
    /\ attempts = [name \in {ProviderName(p) : p \in Providers} |-> NoAttempts]
    /\ current_health = 0
    /\ BackupManagerInit
    /\ callers = NoCallers
    /\ capabilities = [p \in Providers |-> get_capabilities(p, "python")]
    /\ healthy = [p \in Providers |-> TRUE]
    /\ RegistryInit
    /\ NoProject

\* the engine called by several threads at once
CallersSpec == CallersInit /\ [][CallersNext]_vars

(* ----------------------- the backup manager's calls ------------------- *)
\* what a call of the backup manager leaves alone
outside_manager == <<engine_all, registry_vars, thread_vars, health_vars, rope_vars, callers>>

\* the directories of backup_root that hold a manifest.json whose
\* operation_id is id
DirsOf(root, id) == {d \in BackupDirs : d[1] = id /\ root[d].exists}

\* list_backups(): the operation ids of the manifests under backup_root
list_backups(root) == {d[1] : d \in {e \in BackupDirs : root[e].exists}}

\* create_backup raises: a file system operation failed; a file of the list
\* that does not exist is skipped with a warning
create_backup_raises(files, present, io) == io = "oserror"

\* create_backup(operation_id, files) at the second `now`, with the files
\* `present` on disk: the directory <operation_id>_<now> gets the files of
\* the list that exist and a manifest listing them, and becomes the active
\* backup; on an exception the directory is removed and the exception
\* raised again
create_backup(id, files, present, io) ==
    /\ backup_calls < MaxBackupCalls
    /\ LET dir == <<id, now>>
           raises == create_backup_raises(files, present, io)
       IN /\ backup_root' =
                 [backup_root EXCEPT ![dir] =
                     IF raises THEN NoDirectory ELSE Directory(files \cap present)]
          /\ active_dir' = IF raises THEN active_dir
                           ELSE [active_dir EXCEPT ![id] = dir]
          /\ backup_call' =
                 [call |-> "create_backup", operation_id |-> id, files |-> files,
                  present |-> present, dir |-> dir,
                  result |-> IF raises THEN "raised" ELSE "returned",
                  dirs_before |-> DirsOf(backup_root, id),
                  cleaned_before |-> id \in cleaned_up]
    /\ cleaned_up' = cleaned_up \ {id}
    /\ backup_calls' = backup_calls + 1
    /\ UNCHANGED <<now, outside_manager>>

\* the directory restore_backup(operation_id) reads: the active backup if
\* its directory exists, else one that _find_backup_by_operation_id finds
\* by scanning backup_root (any of them: iterdir() has no order)
restore_candidates(id) ==
    IF active_dir[id] # NoDir /\ backup_root[active_dir[id]].exists
    THEN {active_dir[id]}
    ELSE DirsOf(backup_root, id)

\* restore_backup(operation_id): False without a backup directory or on an
\* exception, else the files of the manifest are copied back
restore_backup(id, io) ==
    /\ backup_calls < MaxBackupCalls
    /\ \E dir \in (IF restore_candidates(id) = {} THEN {NoDir}
                    ELSE restore_candidates(id)) :
         backup_call' =
             [call |-> "restore_backup", operation_id |-> id,
              files |-> IF dir = NoDir THEN {} ELSE backup_root[dir].files,
              present |-> {}, dir |-> dir,
              result |-> IF dir # NoDir /\ io = "ok" THEN "True" ELSE "False",
              dirs_before |-> DirsOf(backup_root, id),
              cleaned_before |-> id \in cleaned_up]
    /\ backup_calls' = backup_calls + 1
    /\ UNCHANGED <<backup_root, active_dir, now, cleaned_up, outside_manager>>

\* cleanup_backup(operation_id): removes the directory of the active backup
\* and forgets it; False when there is none or when rmtree raises
cleanup_backup(id, io) ==
    /\ backup_calls < MaxBackupCalls
    /\ LET dir == active_dir[id]
           found == dir # NoDir /\ backup_root[dir].exists
           removed == found /\ io = "ok"
       IN /\ backup_root' = IF removed THEN [backup_root EXCEPT ![dir] = NoDirectory]
                            ELSE backup_root
          /\ active_dir' = IF removed THEN [active_dir EXCEPT ![id] = NoDir]
                           ELSE active_dir
          /\ cleaned_up' = IF removed THEN cleaned_up \cup {id} ELSE cleaned_up
          /\ backup_call' =
                 [call |-> "cleanup_backup", operation_id |-> id, files |-> {},
                  present |-> {}, dir |-> dir,
                  result |-> IF removed THEN "True" ELSE "False",
                  dirs_before |-> DirsOf(backup_root, id),
                  cleaned_before |-> id \in cleaned_up]
    /\ backup_calls' = backup_calls + 1
    /\ UNCHANGED <<now, outside_manager>>

\* a second passes
tick ==
    /\ now < MaxSeconds
    /\ now' = now + 1
    /\ UNCHANGED <<backup_root, active_dir, backup_calls, backup_call, cleaned_up,
                   outside_manager>>

BackupNext ==
    \/ \E id \in BackupIds, files \in FileLists, io \in IoOutcomes :
         \E present \in SUBSET files : create_backup(id, files, present, io)
    \/ \E id \in BackupIds, io \in IoOutcomes : restore_backup(id, io)
    \/ \E id \in BackupIds, io \in IoOutcomes : cleanup_backup(id, io)
    \/ tick

\* a backup manager on an empty backup_root
BackupSpec == RegistryOnlyInit /\ [][BackupNext]_vars

(* ------------------------------ properties ---------------------------- *)
IsInvoke(c) == c.call = "invoke"

\* the provider calls of the operation in progress, in order
Invokes == SelectSeq(calls, IsInvoke)

\* the operation in progress is a fallback operation
InFallback == cur.entry \in {"with_fallback", "with_language_detection"}

\* how many times provider p raised in the operation in progress
TimesRaised(p) ==
    Cardinality({i \in 1..Len(Invokes) :
                    Invokes[i].provider = p /\ Invokes[i].result = "raise"})

\* how many calls of the backup manager's method `name` the operation in
\* progress has made
TimesCalled(name) == Cardinality({i \in 1..Len(calls) : calls[i].call = name})

\* C1: in a fallback operation a result returned with success=False is
\* the final answer: it is what the caller gets, and the provider that
\* returned it is the last provider invoked.
C1_ReturnedFailureIsFinal ==
    InFallback =>
        \A i \in 1..Len(Invokes) :
            Invokes[i].result = "failed" =>
                /\ i = Len(Invokes)
                /\ pc = "done"
                /\ outcome = Returned(Invokes[i].provider, "failed")

\* a returned failure ended a fallback operation that had candidates left
C1_Witness ==
    /\ InFallback
    /\ pc = "done"
    /\ outcome.kind = "returned" /\ ~outcome.success
    /\ Len(Invokes) < Len(sorted_providers)

\* C2: the candidates are invoked in selection order; a candidate is
\* invoked only after every candidate before it raised, and each raise is
\* on record in the metrics of the provider that raised; the first result
\* that is not a raise is returned and ends the invocations.
C2_RaiseMovesToNext ==
    InFallback =>
        /\ Len(Invokes) <= Len(sorted_providers)
        /\ \A i \in 1..Len(Invokes) :
               /\ Invokes[i].provider = sorted_providers[i]
               /\ i < Len(Invokes) => Invokes[i].result = "raise"
        /\ \A p \in Providers :
               TimesRaised(p) > 0 =>
                   provider_metrics[ProviderName(p)].failure_count >= TimesRaised(p)
        /\ pc = "trying" =>
               /\ idx = Len(Invokes) + 1
               /\ \A i \in 1..Len(Invokes) : Invokes[i].result = "raise"
        /\ (pc = "done" /\ Invokes # <<>> /\ Invokes[Len(Invokes)].result # "raise") =>
               outcome = Returned(Invokes[Len(Invokes)].provider,
                                  Invokes[Len(Invokes)].result)

\* a candidate raised and the next candidate's success was returned
C2_Witness ==
    /\ InFallback
    /\ pc = "done"
    /\ Len(Invokes) = 2
    /\ Invokes[1].result = "raise" /\ Invokes[2].result = "success"
    /\ outcome = Returned(sorted_providers[2], "success")
    /\ provider_metrics[ProviderName(sorted_providers[1])].failure_count >= 1

\* every candidate of the finished fallback operation raised
EveryCandidateRaised ==
    /\ InFallback
    /\ pc = "done"
    /\ Invokes # <<>>
    /\ \A i \in 1..Len(Invokes) : Invokes[i].result = "raise"

\* C3: if every candidate raised, the operation raises ProviderError for
\* 'all_providers' wrapping the exception of the last candidate, and each
\* candidate was invoked exactly once.
C3_AllProvidersFailed ==
    EveryCandidateRaised =>
        /\ outcome = Raised("ProviderError", "all_providers", cur.operation,
                            [from |-> sorted_providers[Len(sorted_providers)],
                             attempt |-> Len(sorted_providers)])
        /\ Len(Invokes) = Len(sorted_providers)
        /\ \A i \in 1..Len(Invokes) : Invokes[i].provider = sorted_providers[i]

\* two different candidates raised
C3_Witness ==
    /\ EveryCandidateRaised
    /\ Len(Invokes) = 2
    /\ Invokes[1].provider # Invokes[2].provider


\* how many times the operation in progress has called cleanup_backup with
\* its own operation id
TimesCleanedUp ==
    Cardinality({i \in 1..Len(calls) :
                    /\ calls[i].call = "cleanup_backup"
                    /\ calls[i].operation_id = cur.operation_id})

\* a rename or extract, direct or with fallback, ended with a returned result
DestructiveReturned ==
    /\ pc = "done"
    /\ cur.destructive
    /\ outcome.kind = "returned"

\* C5: a rename or extract that ends with a returned result, success or
\* not, has called cleanup_backup exactly once, for its own operation id,
\* and has not called restore_backup.
C5_CleanupOnceOnReturn ==
    DestructiveReturned =>
        /\ TimesCleanedUp = 1
        /\ TimesCalled("cleanup_backup") = 1
        /\ TimesCalled("restore_backup") = 0

\* a rename or extract with fallback ended with a returned failure
C5_Witness ==
    /\ DestructiveReturned
    /\ InFallback
    /\ ~outcome.success

\* a rename or extract ended because every provider raised
DestructiveExhausted ==
    /\ pc = "done"
    /\ cur.destructive
    /\ outcome.kind = "raised"
    /\ outcome.error = "ProviderError"

\* C6: when a rename or extract fails because every provider raised,
\* cleanup_backup is not called and the backup manager lists exactly the
\* backup of that operation.
C6_BackupPreserved ==
    DestructiveExhausted =>
        /\ TimesCalled("cleanup_backup") = 0
        /\ disk_backups = {cur.operation_id}

\* p is in engine.providers
Registered(p) == \E i \in 1..Len(providers) : providers[i] = p

\* C7: a fallback operation invokes only registered providers that support
\* the language and list the operation for it; if it ends without invoking
\* anyone, no registered provider is capable; if it ends because every
\* candidate raised, every capable registered provider was invoked.
C7_OnlyCapableInvoked ==
    InFallback =>
        /\ \A i \in 1..Len(Invokes) :
               /\ Registered(Invokes[i].provider)
               /\ supports_language(Invokes[i].provider, cur.language)
               /\ cur.operation \in get_capabilities(Invokes[i].provider, cur.language)
        /\ (pc = "done" /\ outcome.error = "UnsupportedLanguageError") =>
               /\ Invokes = <<>>
               /\ \A p \in Providers :
                      Registered(p) =>
                          \/ ~supports_language(p, cur.language)
                          \/ cur.operation \notin get_capabilities(p, cur.language)
        /\ EveryCandidateRaised =>
               \A p \in Providers :
                   (/\ Registered(p)
                    /\ supports_language(p, cur.language)
                    /\ cur.operation \in get_capabilities(p, cur.language))
                   => \E i \in 1..Len(Invokes) : Invokes[i].provider = p

\* every capable provider raised, and a registered provider with a better
\* priority that lacks the capability was not invoked
C7_Witness ==
    /\ EveryCandidateRaised
    /\ \E q \in Providers :
           /\ Registered(q)
           /\ supports_language(q, cur.language)
           /\ cur.operation \notin get_capabilities(q, cur.language)
           /\ priority[q] < priority[Invokes[1].provider]
           /\ \A i \in 1..Len(Invokes) : Invokes[i].provider # q

TimesRegistered(p) == Cardinality({i \in 1..Len(providers) : providers[i] = p})

\* C9: when a fallback operation invokes a provider, every capable
\* registered provider with a smaller priority number has been invoked
\* before it, once per registration, and raised each time; so the first
\* provider invoked has the smallest priority number of the capable ones.
C9_LowestNumberFirst ==
    InFallback =>
        \A j \in 1..Len(Invokes) :
            \A q \in Providers :
                (/\ Registered(q)
                 /\ supports_language(q, cur.language)
                 /\ cur.operation \in get_capabilities(q, cur.language)
                 /\ priority[q] < priority[Invokes[j].provider])
                => Cardinality({i \in 1..(j - 1) :
                                   /\ Invokes[i].provider = q
                                   /\ Invokes[i].result = "raise"})
                       = TimesRegistered(q)

\* the provider registered last has the smaller priority number and was
\* invoked first; the provider registered first was invoked after it raised
C9_Witness ==
    /\ InFallback
    /\ Len(providers) = 2
    /\ priority[providers[2]] < priority[providers[1]]
    /\ Len(Invokes) = 2
    /\ Invokes[1].provider = providers[2]
    /\ Invokes[2].provider = providers[1]

\* the health of provider p when the operation in progress began
HealthAtSelection(p) == cur.health[ProviderName(p)]

\* C10: of two providers invoked by a fallback operation, the one invoked
\* first has the better (smaller) priority number, whatever the health
\* scores, or the same priority and a health score, as of the selection,
\* that is not lower.
C10_HealthIsSecondary ==
    InFallback =>
        \A i, j \in 1..Len(Invokes) :
            i < j =>
                \/ priority[Invokes[i].provider] < priority[Invokes[j].provider]
                \/ /\ priority[Invokes[i].provider] = priority[Invokes[j].provider]
                   /\ HealthAtSelection(Invokes[i].provider)
                          >= HealthAtSelection(Invokes[j].provider)

\* two providers of equal priority: the one registered later had the
\* higher health score and was invoked first
C10_Witness ==
    /\ InFallback
    /\ Len(providers) = 2
    /\ Len(Invokes) = 2
    /\ priority[providers[1]] = priority[providers[2]]
    /\ HealthAtSelection(providers[2]) > HealthAtSelection(providers[1])
    /\ Invokes[1].provider = providers[2]
    /\ Invokes[2].provider = providers[1]

\* a provider of better priority was invoked before a provider of worse
\* priority whose health score was higher
C10_PriorityBeatsHealth ==
    /\ InFallback
    /\ Len(Invokes) = 2
    /\ priority[Invokes[1].provider] < priority[Invokes[2].provider]
    /\ HealthAtSelection(Invokes[1].provider) < HealthAtSelection(Invokes[2].provider)

\* a fallback operation has made at least one attempt
Attempted == InFallback /\ Invokes # <<>>

\* the name of the provider of the latest attempt
LastAttempted == ProviderName(Invokes[Len(Invokes)].provider)

\* the latest attempt raised
LastAttemptRaised == Invokes[Len(Invokes)].result = "raise"

\* C11: right after an attempt of a fallback operation, the health of the
\* attempted provider is max(0, 1 - failure_count/call_count) if the
\* attempt raised, where both counts include the attempt, and
\* min(1.0, health before the attempt + 0.01) if it did not raise.
C11_HealthUpdate ==
    Attempted =>
        LET m == provider_metrics[LastAttempted]
        IN IF LastAttemptRaised
           THEN /\ m.call_count = attempts[LastAttempted].made_since
                /\ m.failure_count = attempts[LastAttempted].raised_since
                /\ m.failure_count >= 1
                /\ (FullHealth * m.failure_count) % m.call_count = 0
                /\ provider_health[LastAttempted] =
                       Max2(0, FullHealth - (FullHealth * m.failure_count) \div m.call_count)
           ELSE provider_health[LastAttempted] =
                    Min2(FullHealth, current_health + HealthScale \div 100)

\* a provider raised after it had not raised: its health is strictly
\* between 0 and 1
C11_Witness ==
    /\ Attempted
    /\ LastAttemptRaised
    /\ provider_health[LastAttempted] > 0
    /\ provider_health[LastAttempted] < FullHealth

\* a provider that had raised before did not raise: its health went up by
\* the step 0.01
C11_Recovered ==
    /\ Attempted
    /\ ~LastAttemptRaised
    /\ current_health < FullHealth
    /\ provider_health[LastAttempted] = current_health + HealthScale \div 100

\* C12: the health of a provider right after an attempt on which it
\* raised is never higher than right before the attempt, and strictly
\* lower when the attempt was the first call of the provider.
C12_RaiseNeverRaisesHealth ==
    (Attempted /\ LastAttemptRaised) =>
        /\ provider_health[LastAttempted] <= current_health
        /\ provider_metrics[LastAttempted].call_count = 1 =>
               provider_health[LastAttempted] < current_health

\* C13 as stated: for every registered provider, call_count is the number
\* of attempts ever made on it and failure_count the number of them that
\* raised, 0 <= failure_count <= call_count, and the health score is in
\* [0, 1], and 1.0 while no attempt followed the registration.
C13_CountsEveryAttempt ==
    \A p \in Providers :
        Registered(p) =>
            LET m == provider_metrics[ProviderName(p)]
                h == provider_health[ProviderName(p)]
            IN /\ m.call_count = attempts[ProviderName(p)].made
               /\ m.failure_count = attempts[ProviderName(p)].raised
               /\ 0 <= m.failure_count /\ m.failure_count <= m.call_count
               /\ 0 <= h /\ h <= FullHealth
               /\ attempts[ProviderName(p)].made_since = 0 => h = FullHealth

\* C13, amended: for every registered provider name, call_count is the
\* number of attempts made on it since the name was last registered and
\* failure_count the number of them that raised,
\* 0 <= failure_count <= call_count, and the health score is in [0, 1],
\* and 1.0 while no attempt followed the registration.
C13_CountsSinceRegistration ==
    \A p \in Providers :
        Registered(p) =>
            LET m == provider_metrics[ProviderName(p)]
                h == provider_health[ProviderName(p)]
            IN /\ m.call_count = attempts[ProviderName(p)].made_since
               /\ m.failure_count = attempts[ProviderName(p)].raised_since
               /\ 0 <= m.failure_count /\ m.failure_count <= m.call_count
               /\ 0 <= h /\ h <= FullHealth
               /\ attempts[ProviderName(p)].made_since = 0 => h = FullHealth

\* a provider was attempted, registered again, and then attempted twice,
\* raising once
C13_Witness ==
    \E p \in Providers :
        /\ Registered(p)
        /\ attempts[ProviderName(p)].made > attempts[ProviderName(p)].made_since
        /\ provider_metrics[ProviderName(p)].call_count = 2
        /\ provider_metrics[ProviderName(p)].failure_count = 1

\* some registered provider supports the language of the operation
LanguageSupported ==
    \E p \in Providers : Registered(p) /\ supports_language(p, cur.language)

\* a fallback operation with valid parameters has ended and no registered
\* provider supports the language and lists the operation for it
NoCandidate ==
    /\ pc = "done"
    /\ InFallback
    /\ cur.checked = "ok"
    /\ \A p \in Providers :
           Registered(p) =>
               \/ ~supports_language(p, cur.language)
               \/ cur.operation \notin get_capabilities(p, cur.language)

\* C14 as stated: without a candidate, the fallback operation ends with
\* UnsupportedLanguage if no registered provider supports the language and
\* with OperationUnsupported if some do but none lists the operation.
C14_DistinguishesFailures ==
    NoCandidate =>
        /\ outcome.kind = "raised"
        /\ outcome.error = IF LanguageSupported THEN "OperationUnsupported"
                           ELSE "UnsupportedLanguageError"

\* C14, amended: without a candidate, the fallback operation raises
\* UnsupportedLanguageError for the language in both cases: no registered
\* provider supports the language, or some do but none lists the operation.
C14_OneFailureForBoth ==
    NoCandidate =>
        outcome = Raised("UnsupportedLanguageError", NoProvider, cur.language, NoException)

\* a provider supports the language, none lists the operation, and the
\* error raised is the one for an unsupported language
C14_Witness ==
    /\ NoCandidate
    /\ LanguageSupported
    /\ outcome.error = "UnsupportedLanguageError"
    /\ outcome.detail = cur.language

C16_RejectedBeforeDispatch ==
    (cur.bad_name \/ cur.bad_path) =>
        /\ Invokes = <<>>
        /\ TimesCalled("create_backup") = 0
        /\ provider_health = cur.health
        /\ provider_metrics = cur.metrics

\* the latest provider call of the operation returned success=False
ProviderReturnedFailure ==
    /\ Invokes # <<>>
    /\ Invokes[Len(Invokes)].result = "failed"

\* C17 as stated: a validation failure, like a failure a provider returns,
\* reaches the caller as a returned result with success=False.
C17_FailuresAreReturned ==
    (pc = "done" /\ (cur.checked # "ok" \/ ProviderReturnedFailure)) =>
        /\ outcome.kind = "returned"
        /\ ~outcome.success

\* C17, amended: an invalid new_name of a rename_symbol request, and a
\* nonexistent declared file path of a request other than find_symbols,
\* reach the caller as a raised ValidationError naming the field, with no
\* provider invoked; a failure that a provider returns reaches the caller
\* as that returned result.
C17_ValidationRaises ==
    pc = "done" =>
        /\ (cur.operation = "rename_symbol" /\ cur.bad_name) =>
               /\ outcome = Raised("ValidationError", NoProvider, "new_name", NoException)
               /\ Invokes = <<>>
        /\ (cur.operation # "find_symbols" /\ cur.bad_path) =>
               /\ outcome.kind = "raised"
               /\ outcome.error = "ValidationError"
               /\ cur.bad_name \/ outcome.detail = "file_path"
               /\ Invokes = <<>>
        /\ ProviderReturnedFailure =>
               outcome = Returned(Invokes[Len(Invokes)].provider, "failed")

\* analyze_symbol with a registered provider raised ValidationError for a
\* file path where nothing exists
C17_Witness ==
    /\ pc = "done"
    /\ cur.entry = "direct"
    /\ cur.operation = "analyze_symbol"
    /\ cur.bad_path
    /\ providers # <<>>
    /\ outcome = Raised("ValidationError", NoProvider, "file_path", NoException)

\* the positions of the records of the registry whose provider supports
\* the language
SupportingPositions(language) ==
    {i \in 1..Len(registry_providers) :
        supports_language(registry_providers[i].provider, language)}

\* `found` lists the provider of every record of the registry that
\* supports the language, once per record, by priority descending and,
\* for equal priorities, in registration order
ListsByPriority(found, language) ==
    /\ Len(found) = Cardinality(SupportingPositions(language))
    /\ \E f \in [1..Len(found) -> SupportingPositions(language)] :
           /\ \A i, j \in 1..Len(found) : i # j => f[i] # f[j]
           /\ \A i \in 1..Len(found) : found[i] = registry_providers[f[i]].provider
           /\ \A i, j \in 1..Len(found) :
                  i < j =>
                      \/ registry_providers[f[i]].priority > registry_providers[f[j]].priority
                      \/ /\ registry_providers[f[i]].priority = registry_providers[f[j]].priority
                         /\ f[i] < f[j]

\* C18: get_providers(L) returns exactly the registered providers that
\* support L, by priority descending with ties in registration order; so
\* for distinct priorities the order does not depend on the order of
\* registration.
C18_SortedByPriority ==
    answer.call = "get_providers" => ListsByPriority(answer.result, answer.language)

\* the provider registered second has the higher priority and is listed
\* first; a third record, of a provider without the language, is left out
C18_Witness ==
    /\ answer.call = "get_providers"
    /\ Len(registry_providers) >= 2
    /\ registry_providers[1].priority < registry_providers[2].priority
    /\ Len(answer.result) = 2
    /\ answer.result[1] = registry_providers[2].provider
    /\ answer.result[2] = registry_providers[1].provider
    /\ answer.result[1] # answer.result[2]

\* two records of equal priority are listed in registration order
C18_Tie ==
    /\ answer.call = "get_providers"
    /\ Len(registry_providers) = 2
    /\ registry_providers[1].priority = registry_providers[2].priority
    /\ registry_providers[1].provider # registry_providers[2].provider
    /\ answer.result = <<registry_providers[1].provider, registry_providers[2].provider>>

\* the providers of `found` whose capabilities for the language, asked
\* now, contain the capability
RECURSIVE CapableNow(_, _, _)
CapableNow(found, language, capability) ==
    IF found = <<>> THEN <<>>
    ELSE (IF capability \in capabilities_now(Head(found), language)
          THEN <<Head(found)>> ELSE <<>>)
         \o CapableNow(Tail(found), language, capability)

\* the providers of `found` whose cached capabilities for the language
\* contain the capability
RECURSIVE CapableWhenCached(_, _, _)
CapableWhenCached(found, language, capability) ==
    IF found = <<>> THEN <<>>
    ELSE (IF capability \in capability_cache[<<Head(found), language>>]
          THEN <<Head(found)>> ELSE <<>>)
         \o CapableWhenCached(Tail(found), language, capability)

\* C19 as stated: get_providers_with_capability(L, op) returns the
\* providers of get_providers(L) whose capabilities for L, at the time of
\* the call, contain op, in the same order.
C19_CapableAtCallTime ==
    answer.call = "get_providers_with_capability" =>
        answer.result = CapableNow(registry_language_cache[answer.language],
                                   answer.language, answer.capability)

\* C19, amended: get_providers_with_capability(L, op) returns the
\* providers of get_providers(L) whose cached capabilities for L contain
\* op, in the same order; a cached capability list is the one the provider
\* reports now unless the provider changed it since the caches were last
\* cleared.
C19_CapableWhenCached ==
    /\ \A k \in DOMAIN capability_cache :
           k[1] \notin capabilities_changed =>
               capability_cache[k] = capabilities_now(k[1], k[2])
    /\ answer.call = "get_providers_with_capability" =>
           /\ answer.language \in DOMAIN registry_language_cache
           /\ \A i \in 1..Len(registry_language_cache[answer.language]) :
                  <<registry_language_cache[answer.language][i], answer.language>>
                      \in DOMAIN capability_cache
           /\ answer.result =
                  CapableWhenCached(registry_language_cache[answer.language],
                                    answer.language, answer.capability)

\* a provider stopped listing a capability after the registry had cached
\* its list, and get_providers_with_capability still returns it
C19_Witness ==
    /\ answer.call = "get_providers_with_capability"
    /\ \E i \in 1..Len(answer.result) :
           /\ answer.result[i] \in capabilities_changed
           /\ answer.capability \notin capabilities_now(answer.result[i], answer.language)

\* what get_providers(language) returns in this state
listed_now(language) == language_cache_after(language)[language]

\* the caches hold what a fresh computation gives
CachesAreFresh ==
    \A language \in RegistryLanguages :
        /\ ListsByPriority(listed_now(language), language)
        /\ language \in DOMAIN best_provider_cache =>
               best_provider_cache[language] =
                   IF listed_now(language) = <<>> THEN NoProvider
                   ELSE listed_now(language)[1]
        /\ (answer.call = "get_best_provider" /\ answer.language = language) =>
               answer.provider =
                   IF listed_now(language) = <<>> THEN NoProvider
                   ELSE listed_now(language)[1]

\* C20: after any sequence of register_provider, unload_provider and
\* queries, get_providers(L) is the priority-sorted list of the registered
\* providers that support L, get_best_provider(L) is its first element or
\* None, and a provider that was just unloaded is not listed.
C20_CachesNeverStale ==
    /\ CachesAreFresh
    /\ answer.call = "unload_provider" =>
           \A language \in RegistryLanguages :
               \A i \in 1..Len(listed_now(language)) :
                   listed_now(language)[i] # answer.provider

\* C21: every mutation of the registry and every cache-populating read runs
\* under the registry's lock, so a reader sees the cache as it was before an
\* update or as it is after it: no call of get_cached_capabilities finds the
\* entry it has just tested for, or stored, gone when it reads it back
C21_ReadersSeeWholeUpdates ==
    \A t \in Threads :
        threads[t].call = "get_cached_capabilities" => threads[t].raised # "KeyError"

\* the provider is in the list
Listed(p, found) == \E i \in 1..Len(found) : found[i] = p

\* C22: get_healthy_providers(L) asks every provider of get_providers(L) for
\* its health on every call: it returns the providers of get_providers(L)
\* that are healthy at the call, in order; and of two calls for L with no
\* registration change in between, a supporting provider that was unhealthy at the first
\* and is healthy at the second is not in the first result and is in the
\* second
C22_HealthEvaluatedEachCall ==
    /\ answer.call = "get_healthy_providers" =>
         LET found == listed_now(answer.language)
             healthy_now == {i \in 1..Len(found) :
                               found[i] \in HasHealthCheck => healthy[found[i]]}
         IN /\ Len(answer.result) = Cardinality(healthy_now)
            /\ \A i \in healthy_now :
                 answer.result[Cardinality({j \in healthy_now : j <= i})] = found[i]
    /\ Len(health_calls) = 2 =>
         LET first == health_calls[1]
             later == health_calls[2]
         IN \A p \in Providers :
              ( /\ first.language = later.language
                /\ Listed(p, compute_providers(registry_providers, later.language))
                /\ p \notin first.reported
                /\ p \in later.reported )
              => ~Listed(p, first.result) /\ Listed(p, later.result)

\* get_healthy_providers returned a provider that its call before, made
\* since the registrations last changed, left out as unhealthy
C22_Witness ==
    /\ answer.call = "get_healthy_providers"
    /\ Len(health_calls) = 2
    /\ health_calls[1].language = answer.language
    /\ health_calls[2].result = answer.result
    /\ \E p \in HasHealthCheck :
         /\ Listed(p, answer.result)
         /\ ~Listed(p, health_calls[1].result)
         /\ p \notin health_calls[1].reported
         /\ Len(answer.result) > 1

\* C23: registering a provider that is already registered replaces its
\* record: get_providers(L) of the registry never lists a provider twice,
\* and a fallback run of the engine never invokes a provider twice
C23_RegisteredOnce ==
    /\ answer.call = "get_providers" =>
         \A i, j \in 1..Len(answer.result) :
            answer.result[i] = answer.result[j] => i = j
    /\ InFallback =>
         \A i, j \in 1..Len(Invokes) :
            Invokes[i].provider = Invokes[j].provider => i = j

\* the file has a definition of the name, a function or an assigned name
Defines(file, name) ==
    \E s \in Slots : file.defs[s].kind # "none" /\ file.defs[s].name = name

\* C24: rename_symbol looks for an existing definition named new_name
\* before it changes anything: when the file of the symbol it resolved has
\* one, it returns success=False with error type naming_conflict and the
\* conflicting locations, and every file is as it was before the call
C24_ConflictLeavesFilesAlone ==
    ( /\ rope_call.operation = "rename_symbol"
      /\ rope_call.resolved # NoSymbol
      /\ Defines(files_before[rope_call.resolved.resource], rope_call.new_name) )
    => /\ ~rope_result.success
       /\ rope_result.error_type = "naming_conflict"
       /\ rope_result.conflicts # <<>>
       /\ project_files = files_before

\* the prefix of an extraction source `module.function` is resolved: the
\* project has the module's file and the file defines the function
PrefixResolved(project, source) ==
    /\ <<source[1]>> \in RopePaths
    /\ project[<<source[1]>>].exists
    /\ NamedNodes(project[<<source[1]>>], source[2]) # {}

\* C25: the expected failures are returned: a call whose symbol is not
\* found, or whose new name is taken by a def of the symbol's file, returns
\* a failed result; an extraction source without a dot gives invalid_source,
\* and one whose prefix is not resolved gives resource_not_found
C25_ExpectedFailuresReturned ==
    /\ ( /\ rope_call.operation \in {"analyze_symbol", "rename_symbol", "show_function"}
         /\ rope_call.resolved = NoSymbol )
       => /\ ~rope_result.success
          /\ rope_result.error_type \in {"symbol_not_found", "function_not_found"}
    /\ ( /\ rope_call.operation = "rename_symbol"
         /\ rope_call.resolved # NoSymbol
         /\ NamedNodes(files_before[rope_call.resolved.resource],
                       rope_call.new_name) # {} )
       => ~rope_result.success /\ rope_result.error_type = "naming_conflict"
    /\ rope_call.operation = "extract_element" =>
         /\ Len(rope_call.symbol) = 1 =>
              ~rope_result.success /\ rope_result.error_type = "invalid_source"
         /\ ( /\ Len(rope_call.symbol) > 1
              /\ ~PrefixResolved(files_before, rope_call.symbol) )
            => ~rope_result.success /\ rope_result.error_type = "resource_not_found"

\* C26: every result a provider operation returns is well formed: with
\* success=False the error type is set and the symbol info, the matches,
\* the modified files, the extracted code and the extractable elements are
\* at their defaults; with success=True the error type is unset
C26_ResultShape ==
    rope_call.operation # "none" =>
        IF rope_result.success
        THEN rope_result.error_type = None
        ELSE /\ rope_result.error_type # None
             /\ rope_result.symbol_info = NoSymbolInfo
             /\ rope_result.matches = <<>>
             /\ rope_result.files_modified = <<>>
             /\ rope_result.extracted_code = None
             /\ rope_result.extractable_elements = <<>>

\* a rename that was refused for a naming conflict, after a call that
\* succeeded and changed a file
C26_Witness ==
    /\ rope_call.operation = "rename_symbol"
    /\ ~rope_result.success
    /\ rope_result.error_type = "naming_conflict"
    /\ rope_result.conflicts # <<>>
    /\ rope_calls > 1
    /\ \E p \in RopePaths : \E s \in Slots :
          files_before[p].defs[s].name \in NewRopeNames \ {"y"}

\* C29: clearing the caches of the provider never changes a result: every
\* call returns what it would have returned had _clear_cache() been called
\* right before it
C29_CacheClearingIsInvisible == rope_result = fresh_result

\* C30: a dotted symbol M.x is resolved in the file of module M: a call
\* for M.x, made when M's file defines x, works on the definition in M's
\* file, whichever other files define x
C30_DottedResolvesInModule ==
    ( /\ rope_call.operation \in {"analyze_symbol", "rename_symbol", "show_function"}
      /\ Len(rope_call.symbol) = 2
      /\ <<rope_call.symbol[1]>> \in RopePaths
      /\ files_before[<<rope_call.symbol[1]>>].exists
      /\ Defines(files_before[<<rope_call.symbol[1]>>], rope_call.symbol[2]) )
    => rope_call.resolved.resource = <<rope_call.symbol[1]>>

\* the operation ids that the exception raised to the caller names in its
\* message or details: BackupError(operation_id, reason) names its
\* operation; ProviderError(provider, operation, original_error) has the
\* provider, the operation's name and the provider's exception, and a
\* provider is never handed the operation id
named_operation_ids(e) ==
    IF e.error = "BackupError" THEN {cur.operation_id} ELSE {}

\* C27: when a rename or extract with fallback fails because every
\* provider raised, the error raised to the caller names the operation id
\* of the operation.
C27_ErrorNamesOperationId ==
    (DestructiveExhausted /\ EveryCandidateRaised) =>
        cur.operation_id \in named_operation_ids(outcome)

\* the operation in progress called cleanup_backup and it returned False
CleanupFailed ==
    \E i \in 1..Len(calls) :
        /\ calls[i].call = "cleanup_backup"
        /\ calls[i].operation_id = cur.operation_id
        /\ ~calls[i].result

\* C28: when cleanup_backup fails after a rename or extract whose provider
\* returned, the caller gets the result of that provider with its success
\* flag as the provider set it, and no exception.
C28_CleanupFailureKeepsResult ==
    (pc = "done" /\ cur.destructive /\ CleanupFailed) =>
        /\ Invokes # <<>>
        /\ Invokes[Len(Invokes)].result # "raise"
        /\ outcome.kind = "returned"
        /\ outcome.provider = Invokes[Len(Invokes)].provider
        /\ outcome.success = (Invokes[Len(Invokes)].result = "success")
        /\ outcome.error = ""

\* a rename or extract with fallback returned a success although
\* cleanup_backup returned False
C28_Witness ==
    /\ DestructiveReturned
    /\ InFallback
    /\ CleanupFailed
    /\ outcome.success

\* C31: a create_backup that returns has captured every file of the list
\* it was given, and a create_backup that raises leaves no backup
\* directory of its operation id that was not there before the call.
C31_BackupIsAtomic ==
    backup_call.call = "create_backup" =>
        /\ backup_call.result = "returned" =>
               /\ backup_root[backup_call.dir].exists
               /\ backup_root[backup_call.dir].files = backup_call.files
        /\ backup_call.result = "raised" =>
               /\ ~backup_root[backup_call.dir].exists
               /\ DirsOf(backup_root, backup_call.operation_id)
                      \subseteq backup_call.dirs_before

\* C39: once cleanup_backup(id) has returned True and until create_backup
\* is called with id again, restore_backup(id) and cleanup_backup(id)
\* return False and list_backups() has no entry for id.
C39_CleanedUpIsGone ==
    /\ \A id \in cleaned_up : id \notin list_backups(backup_root)
    /\ (backup_call.cleaned_before
          /\ backup_call.call \in {"restore_backup", "cleanup_backup"})
         => backup_call.result = "False"

\* the functions of the files a.py, m.py and m/x.py whose name the pattern
\* matches, each as its file and line
MatchingFunctions(project, pattern) ==
    {fl \in RopePaths \X Slots :
        /\ project[fl[1]].exists
        /\ project[fl[1]].defs[fl[2]].kind = "function"
        /\ pattern \in {"*", project[fl[1]].defs[fl[2]].name}}

\* C32: find_symbols returns at most 100 matches, total_count is the number
\* of functions of the project that match the pattern, and the number of
\* returned matches is min(total_count, 100).
C32_MatchesCapped ==
    (rope_call.operation = "find_symbols" /\ rope_result.success) =>
        /\ Len(rope_result.matches) <= 100
        /\ rope_result.total_count =
               Cardinality(MatchingFunctions(files_before, rope_call.pattern))
               + (IF rope_call.pattern = "*" THEN more_functions ELSE 0)
        /\ Len(rope_result.matches) =
               (IF rope_result.total_count < 100 THEN rope_result.total_count ELSE 100)

\* a search that met more than 100 matching functions
C32_Witness ==
    /\ rope_call.operation = "find_symbols"
    /\ rope_result.success
    /\ rope_result.total_count > 100
    /\ Len(rope_result.matches) = 100

\* the positions of the lambdas in the function body
LambdasOf(nodes) == {i \in 1..Len(nodes) : nodes[i] = "Lambda"}

\* C33: a successful show_function lists one element per lambda of the
\* function body and none for a comprehension, each of type lambda and
\* extractable, the k-th of them with the id
\* <qualified function name>.lambda_k; a function without a lambda gives
\* a success with an empty list.
C33_LambdasListed ==
    (/\ rope_call.operation = "show_function"
     /\ rope_result.success
     /\ NamedNodes(files_before[rope_call.resolved.resource],
                   rope_call.resolved.name) # {}) =>
        /\ Len(rope_result.extractable_elements) = Cardinality(LambdasOf(body))
        /\ \A k \in 1..Len(rope_result.extractable_elements) :
              /\ rope_result.extractable_elements[k].type = "lambda"
              /\ rope_result.extractable_elements[k].extractable
              /\ rope_result.extractable_elements[k].id =
                     rope_call.resolved.qualified_name
                         \o <<"lambda_" \o ToString(k)>>

\* a function with two lambdas and a comprehension was shown
C33_Witness ==
    /\ rope_call.operation = "show_function"
    /\ rope_result.success
    /\ Len(rope_result.extractable_elements) = 2
    /\ \E i \in 1..Len(body) : body[i] # "Lambda"

\* the providers of the latest execute_with_fallback: the list that
\* get_providers gives for its language
Asked == registry_language_cache[answer.language]

\* C34: execute_with_fallback calls the providers of get_providers(L) in
\* order, unhealthy ones too, until one does not raise, and returns its
\* result; when none returns it raises 'No providers available' for an
\* empty list, 'No healthy providers available' when no provider of the
\* list reports healthy, else 'All providers failed' chained from the
\* exception of the last provider.
C34_RegistryFallback ==
    answer.call = "execute_with_fallback" =>
        LET r == answer.result
            n == Len(Asked)
            all_raise == \A i \in 1..n : r.outs[i] = "raise"
            none_healthy == \A i \in 1..n :
                               Asked[i] \in HasHealthCheck /\ ~healthy[Asked[i]]
        IN /\ Len(r.outs) = n
           /\ Len(r.tried) <= n
           /\ \A i \in 1..Len(r.tried) :
                 /\ r.tried[i] = Asked[i]
                 /\ i < Len(r.tried) => r.outs[i] = "raise"
           /\ ~all_raise =>
                 /\ r.outcome.kind = "returned"
                 /\ r.outs[Len(r.tried)] # "raise"
                 /\ r.outcome.by = Asked[Len(r.tried)]
           /\ all_raise =>
                 /\ r.outcome.kind = "raised"
                 /\ r.tried = Asked
                 /\ r.outcome.message =
                        (IF n = 0 THEN "No providers available"
                         ELSE IF none_healthy THEN "No healthy providers available"
                         ELSE "All providers failed")
                 /\ r.outcome.cause =
                        (IF n = 0 \/ none_healthy THEN 0 ELSE n)

\* the second provider of the list returned after the first one, which
\* reports unhealthy, raised
C34_Witness ==
    /\ answer.call = "execute_with_fallback"
    /\ Len(answer.result.tried) = 2
    /\ answer.result.outcome.kind = "returned"
    /\ answer.result.tried[1] \in HasHealthCheck
    /\ ~healthy[answer.result.tried[1]]

\* the step is an attempt of the fallback loop on the provider named q
AttemptOn(q) == pc = "trying" /\ ProviderName(sorted_providers[idx]) = q

\* the step registers the provider named q
RegistrationOf(q) ==
    /\ Len(providers') = Len(providers) + 1
    /\ ProviderName(providers'[Len(providers')]) = q

FallbackEnded == pc = "done" /\ InFallback

\* the operation ended with a result that the last provider invoked returned
ReturnedByProvider ==
    /\ outcome.kind = "returned"
    /\ Invokes # <<>>
    /\ outcome.provider = Invokes[Len(Invokes)].provider

\* the operation ended with UnsupportedLanguageError or with ProviderError
\* for 'all_providers'
RaisedByExecutor ==
    /\ outcome.kind = "raised"
    /\ \/ outcome.error = "UnsupportedLanguageError"
       \/ outcome.error = "ProviderError" /\ outcome.provider = "all_providers"

\* a fallback operation that is in its loop comes to an end
LoopEnds == (pc = "trying") ~> (pc = "done")

C36_NoUpdateLost ==
    (\A c \in Callers : callers[c].at = "idle") =>
        \A n \in DOMAIN provider_metrics :
            /\ provider_metrics[n].call_count = attempts[n].made
            /\ provider_metrics[n].failure_count = attempts[n].raised

====
